---- MODULE Spec2Model ----
(***************************************************************************)
(* Model of the makedemo interaction-and-recording pipeline:               *)
(*   createDemo (orchestrator), AuthenticationHandler, BrowserManager and  *)
(*   VideoProcessor (recording engine).                                    *)
(* Every await of the JavaScript source is a point where the single        *)
(* threaded event loop may run another callback, so an async function is   *)
(* split into one action per stretch of code between two awaits that can   *)
(* interleave with the capture timer.                                      *)
(***************************************************************************)
EXTENDS Integers, Sequences, FiniteSets, TLC

(***************************************************************************)
(* Bounds of the model                                                     *)
(***************************************************************************)
\* longest interaction plan the reasoning service returns in the model
MaxSteps == 2
\* last value of the wall clock (Date.now()) in the model
MaxTime == 1
\* most frames one session accumulates in the model
MaxFrames == 2
\* most screenshots suspended at the same time
MaxInflight == 2
\* most calls the engine harness issues on one VideoProcessor
MaxApiCalls == 4
\* longest array the reasoning service answers with in the model of the planner
MaxResponse == 2
\* most elements on a page in the model of the element resolver
MaxElems == 2
\* largest index a selector carries in :nth-of-type(...)
MaxNth == 3
\* longest text, in characters, in the model of the audio functions
MaxChars == 5

(***************************************************************************)
(* Values                                                                  *)
(***************************************************************************)
NoTime == -1
\* null as the value of an element handle; the document root as an element
Null == -1
Root == 0
NoUrl == "no-url"
Urls == {"/login", "/dashboard"}
Users == {"", "user@example.com"}
Passwords == {"", "secret"}

\* this.supportedInteractions of AIDecisionMaker: the kinds a validated plan holds
supportedInteractions == {"click", "type", "hover", "scroll", "wait"}

\* error messages of the source
ErrMissingCredentials == "Missing required credentials: user and password"
ErrAuthenticationFailed == "Authentication failed"
ErrElementNotFound == "Element not found"
ErrUnsupportedType == "Unsupported interaction type"
ErrVideoProcessingFailed == "Video processing failed"
ErrPlanFailed == "Failed to generate interaction plan"
ErrNarrationFailed == "Failed to generate narration"

VARIABLES
  \* ---- createDemo ----
  pc,                 \* position of createDemo ("harness" when only the engine is driven)
  err,                \* the error createDemo rejected with: message and selector named
  cfgUser,            \* config.user
  cfgPassword,        \* config.password
  browser,            \* BrowserManager.browser: "null", "open" or "closed"
  interactions,       \* the plan returned by planInteractions
  i,                  \* loop index of createDemo, 1-based
  transcriptSegments, \* narration texts pushed so far
  trace,              \* history: calls, returns and throws of createDemo's collaborators
  \* ---- AuthenticationHandler.authenticate ----
  loginForm,          \* result of detectLoginForm
  originalUrl,        \* page.url() before the form is submitted
  newUrl,             \* page.url() read by waitForAuthenticationResult
  authResult,         \* result of waitForAuthenticationResult
  authSuccess,        \* value authenticate returned: "unset", "true", "false"
  authException,      \* history: stage of authenticate in which an exception was thrown
  pageTouched,        \* history: stages of authenticate that called the page
  pageProbe,          \* history: what the page answered to the probes of authenticate
  \* ---- VideoProcessor ----
  isRecording,
  recordingStartTime,
  frames,
  audioSegments,
  frameInterval,      \* handle of the interval timer, 0 for null
  currentPage,        \* "null" or "page"
  armed,              \* handles of the interval timers that are armed in the event loop
  startsPending,      \* startRecording calls suspended on page.setViewport (session of each)
  inflight,           \* captureFrame calls suspended on page.screenshot (session of each)
  session,            \* history: number of sessions begun on this engine
  now,                \* Date.now()
  \* ---- engine harness ----
  harnessCalls,       \* calls issued by the harness
  harnessLast,        \* the last call issued by the harness
  harnessPre,         \* isRecording at the time of that call
  harnessErr,         \* TRUE when a harness call raised
  \* ---- VideoProcessor.finalizeVideo ----
  audioInputs,        \* segments registered with command.input, in registration order
  audioRun,           \* the audio-track command: "idle", "running", "ended", "failed"
  pendingWrites,      \* segments whose fs.writeFile of createAudioTrack is outstanding
  frameFiles,         \* the images in the temp_frames directory: name and frame of each
  videoPath,          \* finalVideoPath of createDemo: "none" or "output"
  \* ---- AIDecisionMaker ----
  maxInteractions,    \* this.maxInteractions
  response,           \* the array generateInteractionPlan returned, raw steps
  verdicts,           \* what validateInteraction answered for each raw step
  validInteractions,  \* the array planInteractions returned
  \* ---- BrowserManager.findElementWithFallback ----
  rPage,              \* the elements of the page, in document order
  rSelector,          \* argument selector
  rDescription,       \* argument description, as its words
  rStage,             \* the strategy about to run, "done" or "threw"
  rResult,            \* the value returned: an element of the page or Null
  rConsulted,         \* history: the strategies that queried the page, in order
  rHasPage,           \* FALSE when this.page is null
  rFailed,            \* history: the keywords whose XPath search threw
  \* ---- generateSpeech and makeApiRequest ----
  sText,              \* argument text
  sApiKey,            \* TRUE when process.env.ELEVENLABS_API_KEY is set
  sVoice,             \* options.voice, NoVoice when absent
  sGender,            \* options.gender, "null" when absent
  sStage,             \* position of generateSpeech
  sVoiceId,           \* local voiceId of generateSpeech
  sAttempt,           \* loop variable attempt of makeApiRequest
  sRequests,          \* history: the fetch calls, voice id and outcome of each
  sBackoffs,          \* history: the delays waited between attempts, in ms
  sOutcome,           \* "none", "audio", "mock" (a path is returned) or "throw"
  sError,             \* message of the error thrown
  \* ---- estimateAudioDuration ----
  dText,              \* argument text
  dEstimate,          \* the value returned
  dStage,             \* "call" or "done"
  \* ---- AIDecisionMaker.analyzePageState ----
  aUrl,               \* pageState.url, as its host word and its path word
  aElements,          \* pageState.interactiveElements
  aAnalysis,          \* the value returned
  aStage,             \* "call" or "done"
  \* ---- createDemo: file names, voice, transcript ----
  loggerLogFilePath,  \* logger.logFilePath: the file the logger writes
  outputFiles,        \* the paths createDemo names: video, transcript, log
  selectedVoice,      \* the voice picked for the run, NoVoice before
  voicesUsed,         \* history: the voice id each generateSpeech call asked for
  transcriptFile,     \* content written to the transcript file, NoFile before
  subtitleFile        \* content written to the subtitle file, NoFile before

orchVars == <<pc, err, cfgUser, cfgPassword, browser, interactions, i,
              transcriptSegments, trace>>
authVars == <<loginForm, originalUrl, newUrl, authResult, authSuccess,
              authException, pageTouched, pageProbe>>
recVars == <<isRecording, recordingStartTime, frames, audioSegments,
             frameInterval, currentPage, armed, startsPending>>
engineVars == <<isRecording, recordingStartTime, frames, audioSegments,
                frameInterval, currentPage, armed, startsPending, inflight,
                session, now>>
harnessVars == <<harnessCalls, harnessLast, harnessPre, harnessErr>>
finalVars == <<audioInputs, audioRun, pendingWrites, frameFiles, videoPath>>
planVars == <<maxInteractions, response, verdicts, validInteractions>>
resolveVars == <<rPage, rSelector, rDescription, rStage, rResult, rConsulted,
                 rHasPage, rFailed>>
speechVars == <<sText, sApiKey, sVoice, sGender, sStage, sVoiceId, sAttempt, sRequests,
                sBackoffs, sOutcome, sError>>
durationVars == <<dText, dEstimate, dStage>>
\* the variables of the functions that are checked on their own
analyzeVars == <<aUrl, aElements, aAnalysis, aStage>>
libVars == <<resolveVars, speechVars, durationVars, analyzeVars>>
runVars == <<loggerLogFilePath, outputFiles, selectedVoice, voicesUsed,
             transcriptFile, subtitleFile>>
vars == <<orchVars, authVars, engineVars, harnessVars, finalVars, planVars,
          libVars, runVars>>

(***************************************************************************)
(* Helpers                                                                 *)
(***************************************************************************)
Ev(kind, op, step) == [ev |-> kind, op |-> op, step |-> step]
Log(kind, op, step) == trace' = Append(trace, Ev(kind, op, step))
Log2(k1, k2, op, step) == trace' = trace \o <<Ev(k1, op, step), Ev(k2, op, step)>>

NoForm == [found |-> FALSE, emailField |-> FALSE, passwordField |-> FALSE,
           submitButton |-> FALSE]
NoResult == [set |-> FALSE, success |-> FALSE, error |-> ""]
NoProbe == [email |-> "unasked", password |-> "unasked", submit |-> "unasked",
            formButton |-> "unasked", indicator |-> "unasked"]

NoErr == [message |-> "", selector |-> 0]

\* the catch block of createDemo: the error is logged and rethrown, nothing else
CreateDemoCatchNaming(message, selector) ==
  /\ pc' = "failed"
  /\ err' = [message |-> message, selector |-> selector]

CreateDemoCatch(message) == CreateDemoCatchNaming(message, 0)

\* the template literal `${prefix}: ${error.message}` of a wrapping catch block
Wrapped(prefix, cause) == prefix \o ": " \o cause

RemoveAt(seq, k) == SubSeq(seq, 1, k - 1) \o SubSeq(seq, k + 1, Len(seq))

(***************************************************************************)
(* Initial states                                                          *)
(***************************************************************************)
InitAuth ==
  /\ loginForm = NoForm
  /\ originalUrl = NoUrl
  /\ newUrl = NoUrl
  /\ authResult = NoResult
  /\ authSuccess = "unset"
  /\ authException = "none"
  /\ pageTouched = {}
  /\ pageProbe = NoProbe

\* constructor of VideoProcessor
InitEngine ==
  /\ isRecording = FALSE
  /\ recordingStartTime = NoTime
  /\ frames = <<>>
  /\ audioSegments = <<>>
  /\ frameInterval = 0
  /\ currentPage = "null"
  /\ armed = {}
  /\ startsPending = {}
  /\ inflight = <<>>
  /\ session = 0
  /\ now = 0

InitHarness ==
  /\ harnessCalls = 0
  /\ harnessLast = "none"
  /\ harnessPre = FALSE
  /\ harnessErr = FALSE

InitFinal ==
  /\ audioInputs = <<>>
  /\ audioRun = "idle"
  /\ pendingWrites = {}
  /\ frameFiles = {}
  /\ videoPath = "none"

\* constructor of AIDecisionMaker with the maxInteractions of the run
InitPlan ==
  /\ maxInteractions = MaxSteps
  /\ response = <<>>
  /\ verdicts = <<>>
  /\ validInteractions = <<>>

(***************************************************************************)
(* Texts, preprocessText and estimateAudioDuration (audio/generator.js)    *)
(***************************************************************************)
\* A text is a value that is a string or not; a string is a sequence of
\* characters: a letter, a blank, or a character preprocessText removes.
Chars == {"a", " ", "#"}
Strings == UNION {[1..n -> Chars] : n \in 0..MaxChars}
NonString == [isString |-> FALSE, chars |-> <<>>]
Str(chars) == [isString |-> TRUE, chars |-> chars]
Texts == {NonString} \cup {Str(chars) : chars \in Strings}

RECURSIVE CollapseSpaces(_)
\* .replace(/\s+/g, ' '): every run of blanks becomes one blank
CollapseSpaces(chars) ==
  IF Len(chars) < 2 THEN chars
  ELSE IF chars[1] = " " /\ chars[2] = " " THEN CollapseSpaces(Tail(chars))
  ELSE <<chars[1]>> \o CollapseSpaces(Tail(chars))

RECURSIVE Trim(_)
\* String.prototype.trim
Trim(chars) ==
  IF chars = <<>> THEN chars
  ELSE IF chars[1] = " " THEN Trim(Tail(chars))
  ELSE IF chars[Len(chars)] = " " THEN Trim(SubSeq(chars, 1, Len(chars) - 1))
  ELSE chars

\* .replace(/[^\w\s.,!?;:()\-'"]/g, '') and .replace(/[^\x00-\x7F]/g, '')
RemoveSpecial(chars) == SelectSeq(chars, LAMBDA c : c \in {"a", " "})

\* the character limit of preprocessText
maxLength == 4500

\* preprocessText, lines 444-479, on the characters of a string; a text of the
\* model holds no '.', so a text over the limit is cut and gets '...'
preprocessText(text) ==
  IF ~text.isString \/ text.chars = <<>> THEN <<>>
  ELSE LET cleanText ==
             Trim(CollapseSpaces(RemoveSpecial(Trim(CollapseSpaces(text.chars)))))
       IN IF Len(cleanText) > maxLength
          THEN SubSeq(cleanText, 1, maxLength) \o <<".", ".", ".">>
          ELSE cleanText

\* string.split(/\s+/).length: one more than the runs of blanks in the string
SplitLength(chars) ==
  1 + Cardinality({k \in 1..Len(chars) :
                     chars[k] = " " /\ (k = 1 \/ chars[k - 1] # " ")})

wordsPerMinute == 155

\* mutant: the estimate is rounded down
estimateAudioDurationFloor(text) ==
  IF ~text.isString \/ text.chars = <<>> THEN 0
  ELSE (SplitLength(preprocessText(text)) * 60) \div wordsPerMinute

\* estimateAudioDuration, lines 697-710: Math.ceil(wordCount / 155 * 60), seconds
estimateAudioDuration(text) ==
  IF ~text.isString \/ text.chars = <<>> THEN 0
  ELSE LET wordCount == SplitLength(preprocessText(text))
       IN (wordCount * 60 + wordsPerMinute - 1) \div wordsPerMinute

InitDuration ==
  /\ dText = NonString
  /\ dEstimate = 0
  /\ dStage = "done"

\* line 697: one call of estimateAudioDuration
EstimateAudioDuration ==
  /\ dStage = "call"
  /\ dEstimate' = estimateAudioDuration(dText)
  /\ dStage' = "done"
  /\ UNCHANGED dText
  /\ UNCHANGED <<orchVars, authVars, engineVars, harnessVars, finalVars, planVars>>
  /\ UNCHANGED <<resolveVars, speechVars, analyzeVars, runVars>>

(***************************************************************************)
(* generateSpeech and makeApiRequest (audio/generator.js)                  *)
(***************************************************************************)
\* two of the ids of VOICES, a male and a female one
Voices == {"adam", "rachel"}
MaleVoices == {"adam"}
FemaleVoices == {"rachel"}
NoVoice == "none"
Genders == {"null", "male", "robot"}

\* getRandomVoice, lines 365-386: the ids Math.random can select
getRandomVoice(gender) ==
  IF gender = "male" THEN MaleVoices
  ELSE IF gender = "female" THEN FemaleVoices
  ELSE Voices

\* `voice || getRandomVoice(gender)` of line 606: the ids the requests of one
\* generateSpeech call can carry
RequestVoices(voice, gender) ==
  IF voice # NoVoice THEN {voice} ELSE getRandomVoice(gender)

\* the texts generateSpeech is called with in the model
SpeechTexts == {NonString, Str(<<>>), Str(<<" ">>), Str(<<"#">>), Str(<<"a">>)}

\* default of the parameter retries of makeApiRequest
retries == 3

ErrSpeechFailed == "Failed to generate speech"

\* enhanceTextForSpeech, lines 414-437: none of the phrases and punctuation it
\* rewrites occurs in a string over Chars, which it returns as it is; '' for
\* what is not a string
enhanceTextForSpeech(text) == IF text.isString THEN text ELSE Str(<<>>)

\* the input validation of generateSpeech, lines 586-593: "" or the message
SpeechValidationError(text, gender) ==
  IF ~text.isString \/ text.chars = <<>> \/ Trim(text.chars) = <<>>
  THEN "Text is required and must be a non-empty string"
  ELSE IF gender \notin {"null", "male", "female"}
       THEN "Gender must be male, female, or null"
  ELSE ""

\* Math.pow(2, attempt) * 1000 of line 544
BackoffDelay(attempt) == (2 ^ attempt) * 1000

InitSpeech ==
  /\ sText = NonString
  /\ sApiKey = FALSE
  /\ sVoice = NoVoice
  /\ sGender = "null"
  /\ sStage = "done"
  /\ sVoiceId = NoVoice
  /\ sAttempt = 0
  /\ sRequests = <<>>
  /\ sBackoffs = <<>>
  /\ sOutcome = "none"
  /\ sError = ""

SpeechRest == <<orchVars, authVars, engineVars, harnessVars, finalVars, planVars,
                resolveVars, durationVars, analyzeVars, runVars>>

\* the outer catch of generateSpeech, lines 647-650
SpeechThrow(cause) ==
  /\ sOutcome' = "throw"
  /\ sError' = Wrapped(ErrSpeechFailed, cause)
  /\ sStage' = "done"

\* generateSpeech up to its first await, lines 578-618
\*   mkdirOk: fs.mkdir of line 618 resolves
SpeechEnter ==
  /\ sStage = "enter"
  /\ IF SpeechValidationError(sText, sGender) # ""
     THEN /\ SpeechThrow(SpeechValidationError(sText, sGender))
          /\ UNCHANGED sVoiceId
     ELSE IF ~sApiKey
     THEN /\ sStage' = "mock"
          /\ UNCHANGED <<sVoiceId, sOutcome, sError>>
     ELSE \E voiceId \in RequestVoices(sVoice, sGender), mkdirOk \in BOOLEAN :
            /\ sVoiceId' = voiceId
            /\ sStage' = IF preprocessText(enhanceTextForSpeech(sText)) = <<>>
                            \/ ~mkdirOk
                         THEN "mock" ELSE "fetch"
            /\ UNCHANGED <<sOutcome, sError>>
  /\ UNCHANGED <<sText, sApiKey, sVoice, sGender, sAttempt, sRequests, sBackoffs>>
  /\ UNCHANGED SpeechRest

\* mutant: makeApiRequest gives up after the first failed attempt
AfterFailedAttemptGiveUp(attempt) == "mock"

\* the catch of makeApiRequest, lines 537-547: the last failure is rethrown to
\* the inner catch of generateSpeech, an earlier one is followed by a delay
AfterFailedAttempt(attempt) == IF attempt = retries - 1 THEN "mock" ELSE "backoff"

\* one pass of the loop of makeApiRequest, lines 526-536: fetch and its answer
SpeechFetch ==
  /\ sStage = "fetch"
  /\ \E ok \in BOOLEAN :
       /\ sRequests' = Append(sRequests,
                          [voiceId |-> sVoiceId, attempt |-> sAttempt, ok |-> ok])
       /\ sStage' = IF ok THEN "write" ELSE AfterFailedAttempt(sAttempt)
  /\ UNCHANGED <<sText, sApiKey, sVoice, sGender, sVoiceId, sAttempt, sBackoffs,
                 sOutcome, sError>>
  /\ UNCHANGED SpeechRest

\* lines 543-546: the delay before the next attempt has passed
SpeechBackoff ==
  /\ sStage = "backoff"
  /\ sBackoffs' = Append(sBackoffs, BackoffDelay(sAttempt))
  /\ sAttempt' = sAttempt + 1
  /\ sStage' = "fetch"
  /\ UNCHANGED <<sText, sApiKey, sVoice, sGender, sVoiceId, sRequests, sOutcome,
                 sError>>
  /\ UNCHANGED SpeechRest

\* lines 628-637: the audio is written and the file checked; a failure goes to
\* the inner catch
SpeechWrite ==
  /\ sStage = "write"
  /\ \E written \in BOOLEAN :
       IF written
       THEN /\ sOutcome' = "audio"
            /\ sStage' = "done"
       ELSE /\ sStage' = "mock"
            /\ UNCHANGED sOutcome
  /\ UNCHANGED <<sText, sApiKey, sVoice, sGender, sVoiceId, sAttempt, sRequests,
                 sBackoffs, sError>>
  /\ UNCHANGED SpeechRest

\* mutant: the inner catch of generateSpeech rethrows instead of falling back
MockFallbackRethrow(written) ==
  SpeechThrow("Eleven Labs API error")

\* mockGenerateAudio, lines 554-568, called at line 599 or by the inner catch at
\* line 642: the path of the mock file is returned unless writing it fails
MockFallback(written) ==
  IF written
  THEN /\ sOutcome' = "mock"
       /\ sStage' = "done"
       /\ UNCHANGED sError
  ELSE SpeechThrow("mkdir failed")

SpeechMock ==
  /\ sStage = "mock"
  /\ \E written \in BOOLEAN : MockFallback(written)
  /\ UNCHANGED <<sText, sApiKey, sVoice, sGender, sVoiceId, sAttempt, sRequests,
                 sBackoffs>>
  /\ UNCHANGED SpeechRest

(***************************************************************************)
(* createDemo and createLogger: the names of the files of a run            *)
(***************************************************************************)
\* Date.prototype.toISOString for the instant t ms after the start of the
\* model's clock, as its fields and the separators between them
IsoString(t) ==
  <<"1970", "-", "01", "-", "01", "T", "00", ":", "00", ":", "00", ".",
    (IF t < 10 THEN "00" ELSE IF t < 100 THEN "0" ELSE "") \o ToString(t), "Z">>

\* .replace(/[:.]/g, '-')
ReplaceColonsAndDots(pieces) ==
  [k \in DOMAIN pieces |-> IF pieces[k] \in {":", "."} THEN "-" ELSE pieces[k]]

RECURSIVE Join(_, _)
\* Array.prototype.join
Join(pieces, separator) ==
  IF pieces = <<>> THEN ""
  ELSE IF Len(pieces) = 1 THEN pieces[1]
  ELSE pieces[1] \o separator \o Join(Tail(pieces), separator)

\* `new Date().toISOString().replace(/[:.]/g, '-')` read at instant t: line 20
\* of createLogger and line 62 of createDemo
TimestampToken(t) == Join(ReplaceColonsAndDots(IsoString(t)), "")

\* path.join(outputDir, name) with the default output directory
OutputPath(name) == "output/" \o name

\* createLogger, lines 20-22: the file the logger created at instant t writes
LogFilePath(t) == OutputPath("mkdemo_" \o TimestampToken(t) \o ".log")

\* mutant: createDemo reports the path the logger writes to
OutputFilesOfLogger(t) ==
  [video |-> OutputPath("demo_" \o TimestampToken(t) \o ".mp4"),
   transcript |-> OutputPath("transcription_" \o TimestampToken(t) \o ".txt"),
   log |-> loggerLogFilePath]

\* createDemo, lines 62-67, executed at instant t
OutputFiles(t) ==
  [video |-> OutputPath("demo_" \o TimestampToken(t) \o ".mp4"),
   transcript |-> OutputPath("transcription_" \o TimestampToken(t) \o ".txt"),
   log |-> OutputPath("mkdemo_" \o TimestampToken(t) \o ".log")]

NoFiles == [video |-> "", transcript |-> "", log |-> ""]
NoFile == [path |-> "", content |-> ""]

\* the narration the reasoning service gives for step k
NarrationText(k) == "Narration " \o ToString(k)

\* String.prototype.padStart(width, '0') of a number below 1000
PadStart(n, width) ==
  (IF width >= 3 /\ n < 100 THEN "0" ELSE "")
  \o (IF width >= 2 /\ n < 10 THEN "0" ELSE "") \o ToString(n)

\* formatSRTTime, lines 199-207
formatSRTTime(milliseconds) ==
  LET totalSeconds == milliseconds \div 1000
      hours == totalSeconds \div 3600
      minutes == (totalSeconds % 3600) \div 60
      seconds == totalSeconds % 60
      ms == milliseconds % 1000
  IN PadStart(hours, 2) \o ":" \o PadStart(minutes, 2) \o ":"
     \o PadStart(seconds, 2) \o "," \o PadStart(ms, 3)

\* the 3 seconds saveTranscript gives every segment, in ms
segmentWindow == 3000

\* saveTranscript, line 176
PlainText(segments) == Join(segments, "\n\n")

\* saveTranscript, lines 179-184
SrtContent(segments) ==
  Join([k \in 1..Len(segments) |->
          ToString(k) \o "\n" \o formatSRTTime((k - 1) * segmentWindow) \o " --> "
            \o formatSRTTime(k * segmentWindow) \o "\n" \o segments[k] \o "\n"],
       "\n")

\* filePath.replace('.txt', '.srt') of line 190 for a transcript path of line
\* 65: the same name with the other extension
SrtPathOf(filePath) ==
  LET t == CHOOSE t \in 0..MaxTime : OutputFiles(t).transcript = filePath
  IN OutputPath("transcription_" \o TimestampToken(t) \o ".srt")

\* mutant: the narration is put in front of the segments pushed before
PushSegmentFront(segments, text) == <<text>> \o segments

\* `transcriptSegments.push(narrationText)`, line 113
PushSegment(segments, text) == Append(segments, text)

\* mutant: every generateSpeech call lets the generator pick a voice
SpeechVoiceOptionUnset(selected) == NoVoice

\* the option `voice: selectedVoice` of line 118
SpeechVoiceOption(selected) == selected

\* createLogger is called at line 38, before the try block, at instant 0
InitRun ==
  /\ loggerLogFilePath = LogFilePath(0)
  /\ outputFiles = NoFiles
  /\ selectedVoice = NoVoice
  /\ voicesUsed = <<>>
  /\ transcriptFile = NoFile
  /\ subtitleFile = NoFile

\* no resolution in progress: the idle values of the resolver's variables
InitResolve ==
  /\ rPage = <<>>
  /\ rSelector = [tag |-> "div", pseudo |-> FALSE, of |-> "none", nth |-> 0]
  /\ rDescription = <<>>
  /\ rStage = "done"
  /\ rResult = Null
  /\ rConsulted = <<>>
  /\ rHasPage = TRUE
  /\ rFailed = {}

\* no analysis in progress
NoAnalysis == [pageType |-> "none", keyElements |-> <<>>, elementCount |-> 0,
               isLoggedIn |-> FALSE]
InitAnalyze ==
  /\ aUrl = [host |-> "x", path |-> "home"]
  /\ aElements = <<>>
  /\ aAnalysis = NoAnalysis
  /\ aStage = "done"

InitLib == InitResolve /\ InitSpeech /\ InitDuration /\ InitAnalyze

Init ==
  /\ pc = "ensureOutputDirectory"
  /\ err = NoErr
  /\ cfgUser \in Users
  /\ cfgPassword \in Passwords
  /\ browser = "null"
  /\ interactions = <<>>
  /\ i = 1
  /\ transcriptSegments = <<>>
  /\ trace = <<>>
  /\ InitAuth
  /\ InitEngine
  /\ InitHarness
  /\ InitFinal
  /\ InitRun
  /\ InitPlan
  /\ InitLib

(***************************************************************************)
(* AuthenticationHandler                                                   *)
(***************************************************************************)
\* answer of the page to one ordered list of selectors probed with page.$:
\* "hit" when some selector of the list matches before any probe throws,
\* "miss" when every probe returns null, "throw" when a probe rejects first
ProbeOutcomes == {"hit", "miss", "throw"}
\* answer of the page to the error-indicator selectors: an element with text,
\* an element whose textContent is empty, no element, or a rejected probe
IndicatorOutcomes == {"text", "blank", "none", "throw"}

\* mutant: the check demands that both credentials are missing
CredentialsMissingBoth(user, password) == user = "" /\ password = ""

\* `!user || !password` of authenticate
CredentialsMissing(user, password) == user = "" \/ password = ""

\* the fallback probe 'form button, form input[type="submit"]' is consulted
FallbackConsulted(e, p, s) == e = "hit" /\ p = "hit" /\ s = "miss"

\* a probe of detectLoginForm rejected (the catch block of detectLoginForm runs)
DetectThrows(e, p, s, f) ==
  \/ e = "throw"
  \/ e # "throw" /\ p = "throw"
  \/ e # "throw" /\ p # "throw" /\ s = "throw"
  \/ FallbackConsulted(e, p, s) /\ f = "throw"

\* mutant: the form counts as found as soon as a submit control is found, and
\* the fallback button is looked for whichever fields are missing
DetectLoginFormResultSubmitOnly(e, p, s, f) ==
  IF DetectThrows(e, p, s, f) THEN NoForm
  ELSE LET submitButton == s = "hit" \/ f = "hit"
       IN [found |-> submitButton,
           emailField |-> e = "hit",
           passwordField |-> p = "hit",
           submitButton |-> submitButton]

\* detectLoginForm: the object it returns for the answers e, p, s, f of the page
DetectLoginFormResult(e, p, s, f) ==
  IF DetectThrows(e, p, s, f) THEN NoForm
  ELSE LET emailField == e = "hit"
           passwordField == p = "hit"
           submitButton == IF s = "hit" THEN TRUE
                           ELSE IF emailField /\ passwordField THEN f = "hit"
                           ELSE FALSE
       IN [found |-> emailField /\ passwordField /\ submitButton,
           emailField |-> emailField,
           passwordField |-> passwordField,
           submitButton |-> submitButton]

\* mutant: an unchanged URL without error indicator counts as a success
WaitValueAmbiguousSuccess(race, orig, url, ind) ==
  IF race = "rejected" THEN [set |-> TRUE, success |-> FALSE, error |-> "exception"]
  ELSE IF url # orig THEN [set |-> TRUE, success |-> TRUE, error |-> ""]
  ELSE IF ind = "throw" THEN [set |-> TRUE, success |-> FALSE, error |-> "exception"]
  ELSE IF ind = "text" THEN [set |-> TRUE, success |-> FALSE, error |-> "indicator text"]
  ELSE [set |-> TRUE, success |-> TRUE, error |-> ""]

\* waitForAuthenticationResult: the object it returns
\*   race: outcome of Promise.race([waitForNavigation, waitForTimeout])
\*   url:  page.url() after the wait;  ind: answer to the error-indicator probes
WaitForAuthenticationResultValue(race, orig, url, ind) ==
  IF race = "rejected" THEN [set |-> TRUE, success |-> FALSE, error |-> "exception"]
  ELSE IF url # orig THEN [set |-> TRUE, success |-> TRUE, error |-> ""]
  ELSE IF ind = "throw" THEN [set |-> TRUE, success |-> FALSE, error |-> "exception"]
  ELSE IF ind = "text" THEN [set |-> TRUE, success |-> FALSE, error |-> "indicator text"]
  ELSE [set |-> TRUE, success |-> FALSE,
        error |-> "Authentication result unclear - no URL change or error message detected"]

\* authenticate, lines 95-102: the credentials check precedes every page call
Authenticate ==
  /\ pc = "authenticate"
  /\ IF CredentialsMissing(cfgUser, cfgPassword)
     THEN /\ Log2("call", "throw", "authenticate", 0)
          /\ CreateDemoCatch(ErrMissingCredentials)
     ELSE /\ Log("call", "authenticate", 0)
          /\ pc' = "detectLoginForm"
          /\ err' = err
  /\ UNCHANGED <<cfgUser, cfgPassword, browser, interactions, i, transcriptSegments>>
  /\ UNCHANGED <<authVars, engineVars, harnessVars>>
  /\ UNCHANGED <<finalVars, planVars, libVars, runVars>>

\* authenticate, lines 104-120: detectLoginForm, the found check, page.url()
DetectLoginForm ==
  /\ pc = "detectLoginForm"
  /\ \E e \in ProbeOutcomes, p \in ProbeOutcomes, s \in ProbeOutcomes,
        f \in ProbeOutcomes, u \in Urls :
       /\ loginForm' = DetectLoginFormResult(e, p, s, f)
       /\ pageProbe' = [pageProbe EXCEPT
                          !.email = e,
                          !.password = IF e = "throw" THEN "unasked" ELSE p,
                          !.submit = IF e = "throw" \/ p = "throw" THEN "unasked" ELSE s,
                          !.formButton = IF FallbackConsulted(e, p, s) THEN f
                                         ELSE "unasked"]
       /\ authException' = IF DetectThrows(e, p, s, f) THEN "detectLoginForm"
                           ELSE authException
       /\ IF loginForm'.found
          THEN /\ originalUrl' = u
               /\ pc' = "fillLoginForm"
          ELSE /\ originalUrl' = originalUrl
               /\ pc' = "authenticateReturn"
  /\ pageTouched' = pageTouched \cup {"detectLoginForm"}
  /\ UNCHANGED <<err, cfgUser, cfgPassword, browser, interactions, i,
                 transcriptSegments, trace>>
  /\ UNCHANGED <<newUrl, authResult, authSuccess>>
  /\ UNCHANGED <<engineVars, harnessVars>>
  /\ UNCHANGED <<finalVars, planVars, libVars, runVars>>

\* mutant: authenticate has no catch block, the exception reaches createDemo
AuthenticateCatchRethrow(stage) ==
  /\ authException' = stage
  /\ Log("throw", "authenticate", 0)
  /\ CreateDemoCatch("page call failed")

\* the catch block of authenticate, lines 139-145: the exception thrown in
\* `stage` is logged and authenticate goes on to return false
AuthenticateCatch(stage) ==
  /\ authException' = stage
  /\ pc' = "authenticateReturn"
  /\ UNCHANGED <<err, trace>>

\* fillLoginForm: its catch rethrows, the catch of authenticate returns false
FillLoginForm ==
  /\ pc = "fillLoginForm"
  /\ pageTouched' = pageTouched \cup {"fillLoginForm"}
  /\ \E ok \in BOOLEAN :
       IF ok THEN /\ pc' = "waitForAuthenticationResult"
                  /\ UNCHANGED <<authException, err, trace>>
             ELSE AuthenticateCatch("fillLoginForm")
  /\ UNCHANGED <<cfgUser, cfgPassword, browser, interactions, i, transcriptSegments>>
  /\ UNCHANGED <<loginForm, originalUrl, newUrl, authResult, authSuccess, pageProbe>>
  /\ UNCHANGED <<engineVars, harnessVars>>
  /\ UNCHANGED <<finalVars, planVars, libVars, runVars>>

WaitForAuthenticationResult ==
  /\ pc = "waitForAuthenticationResult"
  /\ pageTouched' = pageTouched \cup {"waitForAuthenticationResult"}
  /\ \E race \in {"settled", "rejected"}, url \in Urls, ind \in IndicatorOutcomes :
       /\ authResult' = WaitForAuthenticationResultValue(race, originalUrl, url, ind)
       /\ newUrl' = IF race = "settled" THEN url ELSE NoUrl
       /\ pageProbe' = [pageProbe EXCEPT !.indicator =
                          IF race = "settled" /\ url = originalUrl THEN ind
                          ELSE "unasked"]
       /\ authException' = IF race = "rejected"
                              \/ (url = originalUrl /\ ind = "throw")
                           THEN "waitForAuthenticationResult"
                           ELSE authException
  /\ pc' = "authenticateReturn"
  /\ UNCHANGED <<err, cfgUser, cfgPassword, browser, interactions, i,
                 transcriptSegments, trace>>
  /\ UNCHANGED <<loginForm, originalUrl, authSuccess>>
  /\ UNCHANGED <<engineVars, harnessVars>>
  /\ UNCHANGED <<finalVars, planVars, libVars, runVars>>

\* mutant: createDemo does not look at the value authenticate returned
AfterAuthenticateIgnored(success) ==
  /\ pc' = "startRecording"
  /\ err' = err

\* createDemo, lines 81-83: `if (!authSuccess) throw new Error(...)`
AfterAuthenticate(success) ==
  IF success
  THEN /\ pc' = "startRecording"
       /\ err' = err
  ELSE CreateDemoCatch(ErrAuthenticationFailed)

\* the value authenticate returns (lines 128-138, 110, 144)
AuthenticateReturn ==
  /\ pc = "authenticateReturn"
  /\ authSuccess' = IF authResult.success THEN "true" ELSE "false"
  /\ Log("ret", "authenticate", 0)
  /\ AfterAuthenticate(authResult.success)
  \* the locals of authenticate go out of scope
  /\ loginForm' = NoForm
  /\ originalUrl' = NoUrl
  /\ newUrl' = NoUrl
  /\ authResult' = NoResult
  /\ pageProbe' = NoProbe
  /\ UNCHANGED <<cfgUser, cfgPassword, browser, interactions, i, transcriptSegments>>
  /\ UNCHANGED <<authException, pageTouched>>
  /\ UNCHANGED <<engineVars, harnessVars>>
  /\ UNCHANGED <<finalVars, planVars, libVars, runVars>>

(***************************************************************************)
(* createDemo up to the authentication                                     *)
(***************************************************************************)
\* lines 51-67: ensureOutputDirectory rejects only when fs.access fails with
\* another code than ENOENT or when mkdir fails; when it has resolved, the
\* components are constructed and the files of the run are named
EnsureOutputDirectory ==
  /\ pc = "ensureOutputDirectory"
  /\ \E ok \in BOOLEAN :
       IF ok THEN /\ Log2("call", "ret", "ensureOutputDirectory", 0)
                  /\ outputFiles' = OutputFiles(now)
                  /\ pc' = "initialize"
                  /\ err' = err
             ELSE /\ Log2("call", "throw", "ensureOutputDirectory", 0)
                  /\ CreateDemoCatch("Failed to access output directory")
                  /\ UNCHANGED outputFiles
  /\ UNCHANGED <<cfgUser, cfgPassword, browser, interactions, i, transcriptSegments>>
  /\ UNCHANGED <<authVars, engineVars, harnessVars>>
  /\ UNCHANGED <<finalVars, planVars, libVars>>
  /\ UNCHANGED <<loggerLogFilePath, selectedVoice, voicesUsed, transcriptFile,
                 subtitleFile>>

\* BrowserManager.initialize: puppeteer.launch, newPage and the page set-up;
\* a rejection after launch leaves this.browser set
Initialize ==
  /\ pc = "initialize"
  /\ \E r \in {"ok", "launch failed", "page failed"} :
       /\ browser' = IF r = "launch failed" THEN "null" ELSE "open"
       /\ IF r = "ok" THEN /\ Log2("call", "ret", "initialize", 0)
                           /\ pc' = "navigateTo"
                           /\ err' = err
                      ELSE /\ Log2("call", "throw", "initialize", 0)
                           /\ CreateDemoCatch(r)
  /\ UNCHANGED <<cfgUser, cfgPassword, interactions, i, transcriptSegments>>
  /\ UNCHANGED <<authVars, engineVars, harnessVars>>
  /\ UNCHANGED <<finalVars, planVars, libVars, runVars>>

\* BrowserManager.navigateTo: page.goto rejects or the response is not ok
NavigateTo ==
  /\ pc = "navigateTo"
  /\ \E ok \in BOOLEAN :
       IF ok THEN /\ Log2("call", "ret", "navigateTo", 0)
                  /\ pc' = "authenticate"
                  /\ err' = err
             ELSE /\ Log2("call", "throw", "navigateTo", 0)
                  /\ CreateDemoCatch("Navigation failed")
  /\ UNCHANGED <<cfgUser, cfgPassword, browser, interactions, i, transcriptSegments>>
  /\ UNCHANGED <<authVars, engineVars, harnessVars>>
  /\ UNCHANGED <<finalVars, planVars, libVars, runVars>>

(***************************************************************************)
(* VideoProcessor                                                          *)
(***************************************************************************)
\* mutant: startRecording without its `if (this.isRecording) return`
StartRecordingEnterUnguarded ==
  /\ currentPage' = "page"
  /\ isRecording' = TRUE
  /\ recordingStartTime' = now
  /\ frames' = <<>>
  /\ audioSegments' = <<>>
  /\ session' = session + 1
  /\ startsPending' = startsPending \cup {session + 1}
  /\ UNCHANGED <<frameInterval, armed>>

\* startRecording, lines 136-155: the guard, the reset of the session and the
\* call of page.setViewport on which the function suspends
StartRecordingEnter ==
  IF isRecording
  THEN UNCHANGED <<recVars, session>>
  ELSE /\ currentPage' = "page"
       /\ isRecording' = TRUE
       /\ recordingStartTime' = now
       /\ frames' = <<>>
       /\ audioSegments' = <<>>
       /\ session' = session + 1
       /\ startsPending' = startsPending \cup {session + 1}
       /\ UNCHANGED <<frameInterval, armed>>

\* startRecording, lines 157-163: setViewport resolved, setInterval arms a timer
\* whose handle is stored in this.frameInterval
StartRecordingArm(s) ==
  /\ startsPending' = startsPending \ {s}
  /\ frameInterval' = s
  /\ armed' = armed \cup {s}
  /\ UNCHANGED <<isRecording, recordingStartTime, frames, audioSegments,
                 currentPage, session>>

\* startRecording, lines 164-170: setViewport rejected
StartRecordingAbort(s) ==
  /\ startsPending' = startsPending \ {s}
  /\ isRecording' = FALSE
  /\ UNCHANGED <<recordingStartTime, frames, audioSegments, frameInterval,
                 currentPage, armed, session>>

\* stopRecording, lines 176-201
StopRecordingBody ==
  IF ~isRecording
  THEN UNCHANGED <<recVars, session>>
  ELSE /\ isRecording' = FALSE
       /\ IF frameInterval # 0
          THEN /\ armed' = armed \ {frameInterval}
               /\ frameInterval' = 0
          ELSE UNCHANGED <<armed, frameInterval>>
       /\ UNCHANGED <<recordingStartTime, frames, audioSegments, currentPage,
                      startsPending, session>>

\* mutant: the offset of a segment is measured from the append to the start
SegmentStartTimeReversed(t, start) == start - t

\* `Date.now() - this.recordingStartTime` of addAudioSegment, line 250
SegmentStartTime(t, start) == t - start

\* the object addAudioSegment builds, lines 248-253; `at` is history: the value
\* of Date.now() when the segment was built
AudioSegment(audioBuffer, duration) ==
  [buffer |-> audioBuffer,
   startTime |-> SegmentStartTime(now, recordingStartTime),
   duration |-> duration,
   segmentNumber |-> Len(audioSegments),
   at |-> now]

\* mutant: addAudioSegment without its `if (!this.isRecording) return`
AddAudioSegmentBodyUnguarded(audioBuffer, duration) ==
  /\ audioSegments' = Append(audioSegments, AudioSegment(audioBuffer, duration))
  /\ UNCHANGED <<isRecording, recordingStartTime, frames, frameInterval,
                 currentPage, armed, startsPending, session>>

\* addAudioSegment, lines 242-263
AddAudioSegmentBody(audioBuffer, duration) ==
  IF ~isRecording
  THEN UNCHANGED <<recVars, session>>
  ELSE /\ audioSegments' = Append(audioSegments, AudioSegment(audioBuffer, duration))
       /\ UNCHANGED <<isRecording, recordingStartTime, frames, frameInterval,
                      currentPage, armed, startsPending, session>>

\* most screenshots suspended at the same time in the state the model is in:
\* the overlap of captures is explored on the engine driven directly, a run of
\* createDemo is explored with captures that do not overlap
InflightLimit == IF pc = "harness" THEN MaxInflight ELSE 1

\* the interval timer h fires: captureFrame runs up to its await of
\* page.screenshot (lines 206-215)
TimerFire ==
  /\ \E h \in armed :
       IF ~isRecording \/ currentPage = "null"
       THEN UNCHANGED inflight
       ELSE /\ Len(inflight) < InflightLimit
            /\ inflight' = Append(inflight, session)
  /\ UNCHANGED <<recVars, session, now>>
  /\ UNCHANGED <<orchVars, authVars, harnessVars>>
  /\ UNCHANGED <<finalVars, planVars, libVars, runVars>>

\* mutant: the new frame is put in front of the list
PushFrameFront(list, frameData) == <<frameData>> \o list

\* `this.frames.push(frameData)`, line 223
PushFrame(list, frameData) == Append(list, frameData)

\* the object captureFrame builds once the screenshot has resolved, lines
\* 217-221; history: `session` is the session whose timer began the capture and
\* `overlapped` tells whether another capture was suspended at that moment
FrameData(k) ==
  [timestamp |-> now - recordingStartTime,
   frameNumber |-> Len(frames),
   session |-> inflight[k],
   overlapped |-> Len(inflight) > 1]

\* captureFrame, lines 217-229: the screenshot resolved and the frame is pushed
CaptureFrameResolve ==
  /\ browser = "open"
  /\ Len(frames) < MaxFrames
  /\ \E k \in 1..Len(inflight) :
       /\ frames' = PushFrame(frames, FrameData(k))
       /\ inflight' = RemoveAt(inflight, k)
  /\ UNCHANGED <<isRecording, recordingStartTime, audioSegments, frameInterval,
                 currentPage, armed, startsPending, session, now>>
  /\ UNCHANGED <<orchVars, authVars, harnessVars>>
  /\ UNCHANGED <<finalVars, planVars, libVars, runVars>>

\* captureFrame, lines 230-234: the screenshot rejected, the error is logged
CaptureFrameReject ==
  /\ \E k \in 1..Len(inflight) : inflight' = RemoveAt(inflight, k)
  /\ UNCHANGED <<recVars, session, now>>
  /\ UNCHANGED <<orchVars, authVars, harnessVars>>
  /\ UNCHANGED <<finalVars, planVars, libVars, runVars>>

\* last value of the clock in the state the model is in: the passing of time
\* is explored on the engine driven directly, in a run of createDemo the clock
\* advances once
ClockLimit == IF pc = "harness" THEN MaxTime ELSE 1

\* wall-clock time passes; the clock of the model starts with the first
\* recording session, since Date.now() is only read relative to a start time
Tick ==
  /\ session > 0 \/ pc = "ensureOutputDirectory"
  /\ now < ClockLimit
  /\ now' = now + 1
  /\ UNCHANGED <<recVars, inflight, session>>
  /\ UNCHANGED <<orchVars, authVars, harnessVars>>
  /\ UNCHANGED <<finalVars, planVars, libVars, runVars>>

(***************************************************************************)
(* AIDecisionMaker: validateInteraction and planInteractions               *)
(***************************************************************************)
\* the values a field of a raw step takes in the model; "" stands for a field
\* that is absent or falsy (undefined, null, the empty string)
RawTypes == {"", "click", "type", "wait", "drag"}
RawSelectors == {"", "#submit"}
RawDescriptions == {"", "Submit the form"}
RawTexts == {"", "hello"}

\* an element of the response that is not an object (null, a string, a number)
NotAnObject ==
  [isObject |-> FALSE, type |-> "", selector |-> "", description |-> "", text |-> ""]

\* the elements of the array the reasoning service answers with; a text is
\* given only to steps of kind type, the only ones whose text is looked at
RawSteps ==
  {NotAnObject} \cup
  {step \in [isObject : {TRUE}, type : RawTypes, selector : RawSelectors,
             description : RawDescriptions, text : RawTexts] :
     step.text # "" => step.type = "type"}

\* the arrays of at most MaxResponse raw steps
Responses == UNION {[1..n -> RawSteps] : n \in 0..MaxResponse}

\* mutant: validateInteraction without its check of the text of a type step
validateInteractionNoText(interaction) ==
  IF ~interaction.isObject THEN FALSE
  ELSE IF interaction.type = "" \/ interaction.selector = ""
          \/ interaction.description = "" THEN FALSE
  ELSE interaction.type \in supportedInteractions

\* validateInteraction, lines 455-478
validateInteraction(interaction) ==
  IF ~interaction.isObject THEN FALSE
  ELSE IF interaction.type = "" \/ interaction.selector = ""
          \/ interaction.description = "" THEN FALSE
  ELSE IF interaction.type \notin supportedInteractions THEN FALSE
  ELSE IF interaction.type = "type" /\ interaction.text = "" THEN FALSE
  ELSE TRUE

\* Array.prototype.filter with validateInteraction as predicate, line 46
FilterValid(array) == SelectSeq(array, validateInteraction)

\* Array.prototype.slice(0, end), line 47: a negative end counts from the end
SliceFromStart(array, end) ==
  LET len == Len(array)
      last == IF end < 0 THEN (IF len + end < 0 THEN 0 ELSE len + end)
              ELSE IF end > len THEN len ELSE end
  IN SubSeq(array, 1, last)

\* mutant: the response is truncated before the invalid steps are dropped
PlanInteractionsValueSliceFirst(array, max) ==
  FilterValid(SliceFromStart(array, max))

\* planInteractions, lines 45-47: `.filter(validateInteraction).slice(0, max)`
PlanInteractionsValue(array, max) ==
  SliceFromStart(FilterValid(array), max)

\* a caller applies validateInteraction to every element of the response
PlannerValidate ==
  /\ pc = "planner"
  /\ verdicts' = [k \in 1..Len(response) |-> validateInteraction(response[k])]
  /\ pc' = "validated"
  /\ UNCHANGED <<err, cfgUser, cfgPassword, browser, interactions, i,
                 transcriptSegments, trace>>
  /\ UNCHANGED <<maxInteractions, response, validInteractions>>
  /\ UNCHANGED <<authVars, engineVars, harnessVars, finalVars, libVars, runVars>>

\* planInteractions, lines 45-54, on the response held in `response`
PlannerPlan ==
  /\ pc = "validated"
  /\ validInteractions' = PlanInteractionsValue(response, maxInteractions)
  /\ pc' = "planned"
  /\ UNCHANGED <<err, cfgUser, cfgPassword, browser, interactions, i,
                 transcriptSegments, trace>>
  /\ UNCHANGED <<maxInteractions, response, verdicts>>
  /\ UNCHANGED <<authVars, engineVars, harnessVars, finalVars, libVars, runVars>>

(***************************************************************************)
(* createDemo from startRecording on                                       *)
(***************************************************************************)
OrchRest == <<cfgUser, cfgPassword, browser, interactions, i, transcriptSegments>>

\* the kinds of step the reasoning service proposes in the model of a run: one
\* the switch of executeInteraction handles and the one it does not
PlanTypes == {"click", "wait"}

\* the plans planInteractions can return: at most MaxSteps validated steps;
\* step k carries a kind of supportedInteractions and its own selector k
Plans ==
  UNION {[1..n -> PlanTypes \cap supportedInteractions] : n \in 0..MaxSteps}

StepOf(plan, k) == [type |-> plan[k], selector |-> k]

\* mutant: the interaction is executed before its narration is synthesized
LoopOrderSwapped ==
  <<"generateNarration", "executeInteraction", "generateSpeech",
    "addAudioSegment", "settle">>

\* the order of the awaited calls in the body of the for loop, lines 112-129
LoopOrder ==
  <<"generateNarration", "generateSpeech", "executeInteraction",
    "addAudioSegment", "settle">>

\* the call that follows op in the loop body ("next" after the last one)
LoopNext(op) ==
  LET k == CHOOSE n \in 1..Len(LoopOrder) : LoopOrder[n] = op
  IN IF k < Len(LoopOrder) THEN LoopOrder[k + 1] ELSE "next"

\* mutant: after the loop the browser is closed without stopping the recording
LoopPcSkipsStop(k, plan) == IF k <= Len(plan) THEN LoopOrder[1] ELSE "close"

\* the loop test `i < interactions.length` with the 1-based index k
LoopPc(k, plan) == IF k <= Len(plan) THEN LoopOrder[1] ELSE "stopRecording"

\* line 88, and startRecording up to its await
StartRecording ==
  /\ pc = "startRecording"
  /\ StartRecordingEnter
  /\ IF isRecording
     THEN /\ Log2("call", "ret", "startRecording", 0)
          /\ pc' = "planInteractions"
     ELSE /\ Log("call", "startRecording", 0)
          /\ pc' = "setViewport"
  /\ UNCHANGED <<err, OrchRest, inflight, now>>
  /\ UNCHANGED <<authVars, harnessVars>>
  /\ UNCHANGED <<finalVars, planVars, libVars, runVars>>

SetViewportResolve ==
  /\ pc = "setViewport"
  /\ \E s \in startsPending : StartRecordingArm(s)
  /\ Log("ret", "startRecording", 0)
  /\ pc' = "planInteractions"
  /\ UNCHANGED <<err, OrchRest, inflight, now>>
  /\ UNCHANGED <<authVars, harnessVars>>
  /\ UNCHANGED <<finalVars, planVars, libVars, runVars>>

SetViewportReject ==
  /\ pc = "setViewport"
  /\ \E s \in startsPending : StartRecordingAbort(s)
  /\ Log("throw", "startRecording", 0)
  /\ CreateDemoCatch("Failed to start recording")
  /\ UNCHANGED <<OrchRest, inflight, now>>
  /\ UNCHANGED <<authVars, harnessVars>>
  /\ UNCHANGED <<finalVars, planVars, libVars, runVars>>

\* what the reasoning service answers to the request of generateInteractionPlan:
\* the request rejects, or the content of its message is
\*   "array"    JSON text of an array
\*   "value"    JSON text of something that is not an array
\*   "embedded" not JSON, with a bracket-delimited part that is JSON of an array
\*   "brackets" not JSON, with a bracket-delimited part that is not JSON either
\*   "prose"    not JSON, without bracket-delimited part
ServiceAnswers == {"rejects", "array", "value", "embedded", "brackets", "prose"}

\* generateInteractionPlan, lines 279-323: "" when it returns (the parsed value),
\* else the message of the error it throws
GenerateInteractionPlanError(answer) ==
  IF answer = "rejects" THEN "API Error"
  ELSE IF answer = "brackets" THEN "Unexpected token"
  ELSE IF answer = "prose" THEN "Invalid AI response format"
  ELSE ""

\* planInteractions, lines 31-54: "" when it returns a plan, else the message of
\* the error its try block throws
\*   captured: capturePageState resolved;  answer: what the service answered
PlanInteractionsError(captured, answer) ==
  IF ~captured THEN "Evaluation failed"
  ELSE IF GenerateInteractionPlanError(answer) # ""
       THEN GenerateInteractionPlanError(answer)
  ELSE IF answer = "value" THEN "interactions.filter is not a function"
  ELSE ""

\* the events of one planInteractions call up to its return or its catch block:
\* one request to the reasoning service once the page state is captured
PlanInteractionsEvents(captured, answer) ==
  <<Ev("call", "planInteractions", 0)>>
  \o (IF captured
      THEN <<Ev("request", "generateInteractionPlan", 0),
             Ev(IF GenerateInteractionPlanError(answer) = "" THEN "ret" ELSE "throw",
                "generateInteractionPlan", 0)>>
      ELSE <<>>)

\* mutant: the catch block of planInteractions logs the error and returns an
\* empty plan
PlanInteractionsCatchEmptyPlan(events, cause) ==
  /\ trace' = trace \o events \o <<Ev("ret", "planInteractions", 0)>>
  /\ interactions' = <<>>
  /\ i' = 1
  /\ pc' = "stopRecording"
  /\ err' = err

\* the catch block of planInteractions, lines 55-61, followed by the catch block
\* of createDemo
PlanInteractionsCatch(events, cause) ==
  /\ trace' = trace \o events \o <<Ev("throw", "planInteractions", 0)>>
  /\ CreateDemoCatch(Wrapped(ErrPlanFailed, cause))
  /\ UNCHANGED <<interactions, i>>

\* lines 91-100: planInteractions rejects or returns the validated plan, which
\* holds at most maxInteractions steps
PlanInteractions ==
  /\ pc = "planInteractions"
  /\ \E captured \in BOOLEAN, answer \in ServiceAnswers :
       IF PlanInteractionsError(captured, answer) # ""
       THEN /\ PlanInteractionsCatch(PlanInteractionsEvents(captured, answer),
                                     PlanInteractionsError(captured, answer))
            /\ UNCHANGED selectedVoice
       ELSE \E plan \in Plans :
              /\ Len(plan) <= maxInteractions
              /\ interactions' = plan
              /\ i' = 1
              /\ trace' = trace \o PlanInteractionsEvents(captured, answer)
                                \o <<Ev("ret", "planInteractions", 0),
                                      Ev("call", "getRandomVoice", 0)>>
              /\ selectedVoice' \in getRandomVoice("null")
              /\ pc' = LoopPc(1, plan)
              /\ err' = err
  /\ UNCHANGED <<cfgUser, cfgPassword, browser, transcriptSegments>>
  /\ UNCHANGED <<authVars, engineVars, harnessVars>>
  /\ UNCHANGED <<finalVars, planVars, libVars>>
  /\ UNCHANGED <<loggerLogFilePath, outputFiles, voicesUsed, transcriptFile,
                 subtitleFile>>

\* createDemo issues the awaited call op of step i
Call(op) ==
  /\ pc = op
  /\ Log("call", op, i)
  /\ pc' = op \o "_wait"
  /\ UNCHANGED <<err, OrchRest>>
  /\ UNCHANGED <<authVars, engineVars, harnessVars>>
  /\ UNCHANGED <<finalVars, planVars, libVars, runVars>>

\* where createDemo goes on when the awaited call op of step i has returned
Resume(op) ==
  IF LoopNext(op) = "next"
  THEN /\ i' = i + 1
       /\ pc' = LoopPc(i + 1, interactions)
  ELSE /\ i' = i
       /\ pc' = LoopNext(op)

\* the awaited call op of step i rejects: the catch block of createDemo runs
Throw(op, message, selector) ==
  /\ Log("throw", op, i)
  /\ CreateDemoCatchNaming(message, selector)
  /\ UNCHANGED <<OrchRest>>

\* mutant: createDemo skips a step whose element is not found and continues
ExecuteOutcomeSkipMiss(message, step) ==
  IF message \in {"", ErrElementNotFound}
  THEN /\ Resume("executeInteraction")
       /\ UNCHANGED <<err, cfgUser, cfgPassword, browser, interactions,
                      transcriptSegments>>
  ELSE /\ CreateDemoCatchNaming(message, 0)
       /\ UNCHANGED <<OrchRest>>

\* line 122 with the catch of lines 158-164: createDemo goes on when
\* executeInteraction resolved (message "") and fails the run when it rejected
ExecuteOutcome(message, step) ==
  IF message = ""
  THEN /\ Resume("executeInteraction")
       /\ UNCHANGED <<err, cfgUser, cfgPassword, browser, interactions,
                      transcriptSegments>>
  ELSE /\ CreateDemoCatchNaming(message,
            IF message = ErrElementNotFound THEN step.selector ELSE 0)
       /\ UNCHANGED <<OrchRest>>

CallGenerateNarration == Call("generateNarration")

\* what the reasoning service answers to the request of generateNarration: the
\* request rejects, or its answer holds a text, or no choices[0].message.content
NarrationAnswers == {"rejects", "text", "malformed"}

\* the try block of generateNarration, lines 76-99: "" when it returns the
\* narration, else the message of the error thrown in it
GenerateNarrationError(answer) ==
  IF answer = "rejects" THEN "API Error"
  ELSE IF answer = "malformed" THEN "Cannot read properties of undefined"
  ELSE ""

\* mutant: a rejected request is sent a second time
NarrationRequestsRetried(answer, step) ==
  IF answer = "rejects"
  THEN <<Ev("request", "chat.completions.create", step),
         Ev("request", "chat.completions.create", step)>>
  ELSE <<Ev("request", "chat.completions.create", step)>>

\* the requests one generateNarration call sends: the one of line 78
NarrationRequests(answer, step) ==
  <<Ev("request", "chat.completions.create", step)>>

\* lines 112-113: generateNarration resolves and the text is pushed, or it
\* throws from its catch block, lines 100-105, and createDemo fails
RetGenerateNarration ==
  /\ pc = "generateNarration_wait"
  /\ \E answer \in NarrationAnswers :
       IF GenerateNarrationError(answer) = ""
       THEN /\ trace' = trace \o NarrationRequests(answer, i)
                              \o <<Ev("ret", "generateNarration", i)>>
            /\ transcriptSegments' = PushSegment(transcriptSegments, NarrationText(i))
            /\ Resume("generateNarration")
            /\ UNCHANGED <<err, cfgUser, cfgPassword, browser, interactions>>
       ELSE /\ trace' = trace \o NarrationRequests(answer, i)
                              \o <<Ev("throw", "generateNarration", i)>>
            /\ CreateDemoCatch(Wrapped(ErrNarrationFailed,
                                       GenerateNarrationError(answer)))
            /\ UNCHANGED <<OrchRest>>
  /\ UNCHANGED <<authVars, engineVars, harnessVars>>
  /\ UNCHANGED <<finalVars, planVars, libVars, runVars>>

CallGenerateSpeech == Call("generateSpeech")

\* lines 116-119: generateSpeech resolves with the path of an audio file, real
\* or mock, or throws 'Failed to generate speech'; `voiceId` is the voice its
\* line 606 settles on for the option passed
RetGenerateSpeech ==
  /\ pc = "generateSpeech_wait"
  /\ \/ /\ Log("ret", "generateSpeech", i)
        /\ \E voiceId \in RequestVoices(SpeechVoiceOption(selectedVoice), "null") :
             voicesUsed' = Append(voicesUsed, voiceId)
        /\ Resume("generateSpeech")
        /\ UNCHANGED <<err, cfgUser, cfgPassword, browser, interactions,
                       transcriptSegments>>
     \/ /\ Throw("generateSpeech", "Failed to generate speech", 0)
        /\ UNCHANGED voicesUsed
  /\ UNCHANGED <<authVars, engineVars, harnessVars>>
  /\ UNCHANGED <<finalVars, planVars, libVars>>
  /\ UNCHANGED <<loggerLogFilePath, outputFiles, selectedVoice, transcriptFile,
                 subtitleFile>>

(***************************************************************************)
(* BrowserManager.executeInteraction                                       *)
(***************************************************************************)
\* what findElementWithFallback gives: an element handle, null, or a rejection
\* of one of its page queries
FindOutcomes == {"element", "null", "throw"}

\* the kinds the switch of executeInteraction handles, lines 674-707
executableTypes == {"click", "type", "hover", "focus", "scroll"}

\* executeInteraction, lines 662-723: "" when it resolves, else the message of
\* the error it rethrows
\*   found: result of findElementWithFallback;  acted: the element call resolved
ExecuteInteractionError(step, found, acted) ==
  IF found = "throw" THEN "page query failed"
  ELSE IF found = "null" THEN ErrElementNotFound
  ELSE IF step.type \notin executableTypes THEN ErrUnsupportedType
  ELSE IF ~acted THEN "element action failed"
  ELSE ""

CallExecuteInteraction == Call("executeInteraction")

\* line 122
RetExecuteInteraction ==
  /\ pc = "executeInteraction_wait"
  /\ \E found \in FindOutcomes, acted \in BOOLEAN :
       LET step == StepOf(interactions, i)
           message == ExecuteInteractionError(step, found, acted)
       IN /\ trace' = trace
               \o (IF found = "null"
                   THEN <<Ev("miss", "findElementWithFallback", i)>> ELSE <<>>)
               \o <<Ev(IF message = "" THEN "ret" ELSE "throw",
                       "executeInteraction", i)>>
          /\ ExecuteOutcome(message, step)
  /\ UNCHANGED <<authVars, engineVars, harnessVars>>
  /\ UNCHANGED <<finalVars, planVars, libVars, runVars>>

\* lines 125-126: addAudioSegment has no await inside, it runs to completion
AddAudioSegment ==
  /\ pc = "addAudioSegment"
  /\ Log2("call", "ret", "addAudioSegment", i)
  /\ AddAudioSegmentBody([audioOf |-> i], [estimateOf |-> i])
  /\ Resume("addAudioSegment")
  /\ UNCHANGED <<err, cfgUser, cfgPassword, browser, interactions,
                 transcriptSegments, inflight, now>>
  /\ UNCHANGED <<authVars, harnessVars>>
  /\ UNCHANGED <<finalVars, planVars, libVars, runVars>>

CallSettle == Call("settle")

\* line 129: the 2000 ms timer of the settle delay fires
RetSettle ==
  /\ pc = "settle_wait"
  /\ Log("ret", "settle", i)
  /\ Resume("settle")
  /\ UNCHANGED <<err, cfgUser, cfgPassword, browser, interactions,
                 transcriptSegments>>
  /\ UNCHANGED <<authVars, engineVars, harnessVars>>
  /\ UNCHANGED <<finalVars, planVars, libVars, runVars>>

\* line 135
StopRecording ==
  /\ pc = "stopRecording"
  /\ StopRecordingBody
  /\ Log2("call", "ret", "stopRecording", 0)
  /\ pc' = "close"
  /\ UNCHANGED <<err, OrchRest, inflight, now>>
  /\ UNCHANGED <<authVars, harnessVars>>
  /\ UNCHANGED <<finalVars, planVars, libVars, runVars>>

\* BrowserManager.close, lines 1029-1045: the result of browser.close()
\*   closed: browser.close() resolved; otherwise its rejection is logged
CloseResult(b, closed) ==
  IF b = "open" /\ closed THEN "closed" ELSE b

\* line 138
Close ==
  /\ pc = "close"
  /\ \E closed \in BOOLEAN : browser' = CloseResult(browser, closed)
  /\ Log2("call", "ret", "close", 0)
  /\ pc' = "finalizeVideo"
  /\ UNCHANGED <<err, cfgUser, cfgPassword, interactions, i, transcriptSegments>>
  /\ UNCHANGED <<authVars, engineVars, harnessVars>>
  /\ UNCHANGED <<finalVars, planVars, libVars, runVars>>

(***************************************************************************)
(* VideoProcessor.finalizeVideo (line 141 of createDemo)                   *)
(***************************************************************************)
\* mutant: the catch block of finalizeVideo logs the error and returns the path
FinalizeVideoCatchSwallow(events, cause) ==
  /\ trace' = trace \o events \o <<Ev("ret", "finalizeVideo", 0)>>
  /\ videoPath' = "output"
  /\ pc' = "saveTranscript"
  /\ err' = err

\* mutant: createDemo goes on to saveTranscript after a failed finalizeVideo
FinalizeVideoCatchGoesOn(events, cause) ==
  /\ trace' = trace \o events \o <<Ev("throw", "finalizeVideo", 0)>>
  /\ pc' = "saveTranscript"
  /\ err' = err
  /\ UNCHANGED videoPath

\* the catch block of finalizeVideo, lines 307-313, followed by the catch block
\* of createDemo: `events` are the events that precede the rethrow
FinalizeVideoCatch(events, cause) ==
  /\ trace' = trace \o events \o <<Ev("throw", "finalizeVideo", 0)>>
  /\ CreateDemoCatch(Wrapped(ErrVideoProcessingFailed, cause))
  /\ UNCHANGED videoPath

\* mutant: finalizeVideo never builds an audio track
FinalizeBranchVideoOnly(segmentCount) == "createVideoOnly"

\* `if (this.audioSegments.length > 0)` of finalizeVideo, lines 290-296
FinalizeBranch(segmentCount) ==
  IF segmentCount > 0 THEN "createAudioTrack" ELSE "createVideoOnly"

\* finalizeVideo, lines 270-284: the two mkdir calls
FinalizeVideo ==
  /\ pc = "finalizeVideo"
  /\ \/ /\ Log("call", "finalizeVideo", 0)
        /\ pc' = "saveFramesToDisk"
        /\ UNCHANGED <<err, videoPath>>
     \/ FinalizeVideoCatch(<<Ev("call", "finalizeVideo", 0)>>, "mkdir failed")
  /\ UNCHANGED <<OrchRest, audioInputs, audioRun, pendingWrites, frameFiles>>
  /\ UNCHANGED <<authVars, engineVars, harnessVars, planVars, libVars, runVars>>

\* the name saveFramesToDisk gives the image of the frame at a 0-based index
\* below 100, line 327: `frame_${index.toString().padStart(6, '0')}.png`
FrameName(index) ==
  "frame_" \o (IF index < 10 THEN "00000" ELSE "0000") \o ToString(index) \o ".png"

\* mutant: the images are numbered from 1
FrameFilesFromOne(list) ==
  {[name |-> FrameName(k), frame |-> list[k]] : k \in 1..Len(list)}

\* the images the callbacks of `this.frames.map` write, lines 326-329
FrameFiles(list) ==
  {[name |-> FrameName(k - 1), frame |-> list[k]] : k \in 1..Len(list)}

\* finalizeVideo, lines 287-296: saveFramesToDisk and the choice of the encode.
\* Every writeFile is started before the await of Promise.all (line 331), which
\* resolves once all of them have, and rejects as soon as one of them does;
\* frameFiles holds the images once their writes are known to have completed
SaveFramesToDisk ==
  /\ pc = "saveFramesToDisk"
  /\ \/ /\ Log2("call", "ret", "saveFramesToDisk", 0)
        /\ frameFiles' = FrameFiles(frames)
        /\ pc' = FinalizeBranch(Len(audioSegments))
        /\ UNCHANGED <<err, videoPath>>
     \/ /\ frames # <<>>
        /\ UNCHANGED frameFiles
        /\ FinalizeVideoCatch(<<Ev("call", "saveFramesToDisk", 0),
                                Ev("throw", "saveFramesToDisk", 0)>>, "write failed")
  /\ UNCHANGED <<OrchRest, audioInputs, audioRun, pendingWrites>>
  /\ UNCHANGED <<authVars, engineVars, harnessVars, planVars, libVars, runVars>>

\* createAudioTrack, lines 338-371: the executor of the promise runs to its end
\* in one stretch; it starts one fs.writeFile per segment, whose `then` callback
\* will register the input, and calls command.run()
CreateAudioTrack ==
  /\ pc = "createAudioTrack"
  /\ Log("call", "createAudioTrack", 0)
  /\ pendingWrites' = 1..Len(audioSegments)
  /\ audioInputs' = <<>>
  /\ audioRun' = "running"
  /\ pc' = "createAudioTrack_wait"
  /\ UNCHANGED <<err, OrchRest, frameFiles, videoPath>>
  /\ UNCHANGED <<authVars, engineVars, harnessVars, planVars, libVars, runVars>>

\* createAudioTrack, lines 354-356: the write of segment k has resolved and its
\* callback calls command.input(segmentPath); the writes resolve in any order
WriteSegmentResolve ==
  /\ \E k \in pendingWrites :
       /\ pendingWrites' = pendingWrites \ {k}
       /\ audioInputs' = Append(audioInputs, k)
  /\ UNCHANGED <<audioRun, frameFiles, videoPath>>
  /\ UNCHANGED <<orchVars, authVars, engineVars, harnessVars, planVars, libVars, runVars>>

\* createAudioTrack, lines 362-365: the command emits 'end'
AudioTrackEnd ==
  /\ pc = "createAudioTrack_wait"
  /\ audioRun' = "ended"
  /\ Log("ret", "createAudioTrack", 0)
  /\ pc' = "createVideoWithAudio"
  /\ UNCHANGED <<err, OrchRest, audioInputs, pendingWrites, frameFiles, videoPath>>
  /\ UNCHANGED <<authVars, engineVars, harnessVars, planVars, libVars, runVars>>

\* createAudioTrack, lines 366-369: the command emits 'error'
AudioTrackError ==
  /\ pc = "createAudioTrack_wait"
  /\ audioRun' = "failed"
  /\ FinalizeVideoCatch(<<Ev("throw", "createAudioTrack", 0)>>, "FFmpeg error")
  /\ UNCHANGED <<OrchRest, audioInputs, pendingWrites, frameFiles>>
  /\ UNCHANGED <<authVars, engineVars, harnessVars, planVars, libVars, runVars>>

\* createVideoWithAudio (lines 380-417) and createVideoOnly (lines 424-452):
\* the encode op is run and emits 'end' or 'error'
CreateVideo(op) ==
  /\ pc = op
  /\ \/ /\ Log2("call", "ret", op, 0)
        /\ pc' = "cleanupTempFiles"
        /\ UNCHANGED <<err, videoPath>>
     \/ FinalizeVideoCatch(<<Ev("call", op, 0), Ev("throw", op, 0)>>, "FFmpeg error")
  /\ UNCHANGED <<OrchRest, audioInputs, audioRun, pendingWrites, frameFiles>>
  /\ UNCHANGED <<authVars, engineVars, harnessVars, planVars, libVars, runVars>>

CreateVideoWithAudio == CreateVideo("createVideoWithAudio")

CreateVideoOnly == CreateVideo("createVideoOnly")

\* what can go wrong in cleanupTempFiles: fs.readdir rejects, which the catch
\* of line 509 logs, or an fs.unlink or the fs.rmdir rejects, which its own
\* `.catch(() => {})` drops.  The failures are explored where finalizeVideo is
\* called on its own (no output files were named by createDemo); in a whole
\* run of createDemo the cleanup is explored without failures
CleanupFailures ==
  IF outputFiles = NoFiles THEN {"none", "readdir", "unlink"} ELSE {"none"}

\* the events of cleanupTempFiles, lines 481-514: it returns in every case
CleanupEvents(failure) ==
  <<Ev("call", "cleanupTempFiles", 0)>>
  \o (IF failure = "none" THEN <<>> ELSE <<Ev("caught", failure, 0)>>)
  \o <<Ev("ret", "cleanupTempFiles", 0)>>

\* the images left in temp_frames: all of them when the directory could not be
\* read, those whose unlink failed otherwise
CleanupLeaves(failure) ==
  IF failure = "none" THEN {{}}
  ELSE IF failure = "readdir" THEN {frameFiles}
  ELSE SUBSET frameFiles \ {{}}

\* mutant: a failure of the cleanup is raised
CleanupResultRaised(failure) ==
  IF failure = "none"
  THEN /\ trace' = trace \o CleanupEvents(failure) \o <<Ev("ret", "finalizeVideo", 0)>>
       /\ videoPath' = "output"
       /\ pc' = "saveTranscript"
       /\ err' = err
  ELSE FinalizeVideoCatch(CleanupEvents(failure), "cleanup failed")

\* finalizeVideo, lines 298-306: after cleanupTempFiles the output path is
\* returned and stored in finalVideoPath of createDemo
CleanupResult(failure) ==
  /\ trace' = trace \o CleanupEvents(failure) \o <<Ev("ret", "finalizeVideo", 0)>>
  /\ videoPath' = "output"
  /\ pc' = "saveTranscript"
  /\ err' = err

CleanupTempFiles ==
  /\ pc = "cleanupTempFiles"
  /\ \E failure \in CleanupFailures :
       /\ frameFiles' \in CleanupLeaves(failure)
       /\ CleanupResult(failure)
  /\ UNCHANGED <<OrchRest, audioInputs, audioRun, pendingWrites>>
  /\ UNCHANGED <<authVars, engineVars, harnessVars, planVars, libVars, runVars>>

\* line 144 and saveTranscript, lines 172-192: the transcript is written, then
\* the subtitles; a writeFile that rejects fails the run
\*   written: the number of writeFile calls that resolved
SaveTranscript ==
  /\ pc = "saveTranscript"
  /\ \E written \in 0..2 :
       /\ transcriptFile' =
            IF written >= 1
            THEN [path |-> outputFiles.transcript,
                  content |-> PlainText(transcriptSegments)]
            ELSE transcriptFile
       /\ subtitleFile' =
            IF written = 2
            THEN [path |-> SrtPathOf(outputFiles.transcript),
                  content |-> SrtContent(transcriptSegments)]
            ELSE subtitleFile
       /\ IF written = 2
          THEN /\ Log2("call", "ret", "saveTranscript", 0)
               /\ pc' = "done"
               /\ err' = err
          ELSE /\ Log2("call", "throw", "saveTranscript", 0)
               /\ CreateDemoCatch("write failed")
  /\ UNCHANGED <<OrchRest>>
  /\ UNCHANGED <<authVars, engineVars, harnessVars>>
  /\ UNCHANGED <<finalVars, planVars, libVars>>
  /\ UNCHANGED <<loggerLogFilePath, outputFiles, selectedVoice, voicesUsed>>

(***************************************************************************)
(* A caller that drives one VideoProcessor directly                        *)
(***************************************************************************)
HarnessCall(name) ==
  /\ pc = "harness"
  /\ harnessCalls < MaxApiCalls
  /\ harnessCalls' = harnessCalls + 1
  /\ harnessLast' = name
  /\ harnessPre' = isRecording
  /\ UNCHANGED harnessErr

HarnessStartRecording ==
  /\ HarnessCall("startRecording")
  /\ StartRecordingEnter
  /\ UNCHANGED <<inflight, now>>
  /\ UNCHANGED <<orchVars, authVars>>
  /\ UNCHANGED <<finalVars, planVars, libVars, runVars>>

HarnessSetViewportResolve ==
  /\ pc = "harness"
  /\ \E s \in startsPending : StartRecordingArm(s)
  /\ UNCHANGED <<inflight, now>>
  /\ UNCHANGED <<orchVars, authVars, harnessVars>>
  /\ UNCHANGED <<finalVars, planVars, libVars, runVars>>

HarnessSetViewportReject ==
  /\ pc = "harness"
  /\ \E s \in startsPending : StartRecordingAbort(s)
  /\ harnessErr' = TRUE
  /\ UNCHANGED <<inflight, now>>
  /\ UNCHANGED <<orchVars, authVars, harnessCalls, harnessLast, harnessPre>>
  /\ UNCHANGED <<finalVars, planVars, libVars, runVars>>

HarnessStopRecording ==
  /\ HarnessCall("stopRecording")
  /\ StopRecordingBody
  /\ UNCHANGED <<inflight, now>>
  /\ UNCHANGED <<orchVars, authVars>>
  /\ UNCHANGED <<finalVars, planVars, libVars, runVars>>

HarnessAddAudioSegment ==
  /\ HarnessCall("addAudioSegment")
  /\ AddAudioSegmentBody([audioOf |-> harnessCalls], [estimateOf |-> harnessCalls])
  /\ UNCHANGED <<inflight, now>>
  /\ UNCHANGED <<orchVars, authVars>>
  /\ UNCHANGED <<finalVars, planVars, libVars, runVars>>

(***************************************************************************)
(* BrowserManager.findElementWithFallback                                  *)
(***************************************************************************)
\* A page is the sequence of the child elements of one parent, in document
\* order.  A selector is `tag`, `tag:checked`, or one of these followed by
\* :nth-of-type(nth), :first-of-type or :last-of-type (field `of`).  The
\* selectors the model passes in name buttons and divs; pages hold links too.
Tags == {"button", "a", "div"}
SelectorTags == {"button", "div"}
ElementTexts == {"", "Login"}
Elements == [tag : Tags, text : ElementTexts, checked : BOOLEAN]
Pages == UNION {[1..n -> Elements] : n \in 0..MaxElems}

Selectors ==
  {sel \in [tag : SelectorTags, pseudo : BOOLEAN, of : {"none", "nth"},
             nth : 0..MaxNth] :
     sel.of = "none" => sel.nth = 0}

\* a description as its words: a word is inside single quotes or not
DescriptionWords == {"Login", "click", "panel"}
Descriptions ==
  {<<>>,
   <<[quoted |-> TRUE, word |-> "Login"]>>,
   <<[quoted |-> FALSE, word |-> "click"], [quoted |-> TRUE, word |-> "Login"]>>,
   <<[quoted |-> FALSE, word |-> "panel"]>>}

\* String.prototype.toLowerCase and the translate() of the XPath expressions,
\* on the words of the model
Lower(word) == IF word = "Login" THEN "login" ELSE word

\* the positions of the elements of type tag, in document order
OfType(page, tag) == SelectSeq([p \in 1..Len(page) |-> p], LAMBDA p : page[p].tag = tag)

\* 1-based rank of position p among the elements of its own type
RankOfType(page, p) ==
  Cardinality({q \in 1..p : page[q].tag = page[p].tag})

\* CSS matching of the element at position p
Matches(page, sel, p) ==
  /\ page[p].tag = sel.tag
  /\ sel.pseudo => page[p].checked
  /\ sel.of = "nth" => RankOfType(page, p) = sel.nth
  /\ sel.of = "first" => RankOfType(page, p) = 1
  /\ sel.of = "last" => RankOfType(page, p) = Len(OfType(page, sel.tag))

\* page.$$(selector): the positions of the matching elements, in document order
QueryAll(page, sel) ==
  SelectSeq([p \in 1..Len(page) |-> p], LAMBDA p : Matches(page, sel, p))

\* page.$(selector): the first matching element or null
Query(page, sel) ==
  IF QueryAll(page, sel) = <<>> THEN Null ELSE QueryAll(page, sel)[1]

\* the words the second regular expression of extractTextKeywords matches
ActionWords ==
  {"sign up", "login", "submit", "get", "access", "early", "button", "click"}

RECURSIVE Dedupe(_)
\* [...new Set(keywords)]: the first occurrence of each keyword is kept
Dedupe(seq) ==
  IF seq = <<>> THEN <<>>
  ELSE LET init == Dedupe(SubSeq(seq, 1, Len(seq) - 1))
           last == seq[Len(seq)]
       IN IF \E k \in 1..Len(init) : init[k] = last THEN init
          ELSE Append(init, last)

\* extractTextKeywords, lines 830-843: the quoted words, then the action words
\* (matched without regard to case, inside quotes too), without duplicates
extractTextKeywords(description) ==
  LET quotedText == SelectSeq(description, LAMBDA w : w.quoted)
      actionWords == SelectSeq(description, LAMBDA w : Lower(w.word) \in ActionWords)
  IN Dedupe([k \in 1..Len(quotedText) |-> quotedText[k].word]
            \o [k \in 1..Len(actionWords) |-> actionWords[k].word])

\* contains(translate(text(), ...), keyword.toLowerCase()) on the words of the
\* model: the text of an element is one word or empty
ContainsText(element, keyword) == Lower(element.text) = Lower(keyword)

\* mutant: the links are searched before the buttons
FindByTextLinksFirst(page, keyword) ==
  LET buttons == SelectSeq([p \in 1..Len(page) |-> p],
                   LAMBDA p : page[p].tag = "button" /\ ContainsText(page[p], keyword))
      links == SelectSeq([p \in 1..Len(page) |-> p],
                   LAMBDA p : page[p].tag = "a" /\ ContainsText(page[p], keyword))
      anywhere == \E p \in 1..Len(page) : ContainsText(page[p], keyword)
  IN IF links # <<>> THEN links[1]
     ELSE IF buttons # <<>> THEN buttons[1]
     ELSE IF anywhere THEN Root
     ELSE Null

\* the first element one keyword finds with the four XPath expressions of lines
\* 753-782: a button, a link, a clickable element, then any element whose
\* string value contains the keyword, of which the document root is the first
FindByText(page, keyword) ==
  LET buttons == SelectSeq([p \in 1..Len(page) |-> p],
                   LAMBDA p : page[p].tag = "button" /\ ContainsText(page[p], keyword))
      links == SelectSeq([p \in 1..Len(page) |-> p],
                   LAMBDA p : page[p].tag = "a" /\ ContainsText(page[p], keyword))
      clickable == SelectSeq([p \in 1..Len(page) |-> p],
                   LAMBDA p : page[p].tag \in {"button", "a"}
                              /\ ContainsText(page[p], keyword))
      anywhere == \E p \in 1..Len(page) : ContainsText(page[p], keyword)
  IN IF buttons # <<>> THEN buttons[1]
     ELSE IF links # <<>> THEN links[1]
     ELSE IF clickable # <<>> THEN clickable[1]
     ELSE IF anywhere THEN Root
     ELSE Null

RECURSIVE FindByKeywords(_, _, _)
\* the loop of lines 749-787 over the keywords; the XPath search of the
\* keywords in `failing` throws and is skipped by the catch of line 783
FindByKeywords(page, keywords, failing) ==
  IF keywords = <<>> THEN Null
  ELSE IF keywords[1] \notin failing /\ FindByText(page, keywords[1]) # Null
       THEN FindByText(page, keywords[1])
  ELSE FindByKeywords(page, Tail(keywords), failing)

\* extractNthIndex, lines 894-897
extractNthIndex(sel) == IF sel.of = "nth" THEN sel.nth ELSE 1

\* a selector of a kind no element of the pages of the model matches
Unmatched(name) == [tag |-> name, pseudo |-> FALSE, of |-> "none", nth |-> 0]

\* generateFallbackSelectors, lines 850-887
generateFallbackSelectors(sel) ==
  LET currentIndex == extractNthIndex(sel)
      lo == IF currentIndex - 2 > 1 THEN currentIndex - 2 ELSE 1
      nearby == SelectSeq([k \in 1..5 |-> lo + k - 1],
                          LAMBDA n : n <= currentIndex + 2 /\ n # currentIndex)
      baseSelector == [sel EXCEPT !.of = "none", !.nth = 0]
  IN (IF sel.of = "nth"
      THEN [k \in 1..Len(nearby) |-> [sel EXCEPT !.nth = nearby[k]]]
           \o <<[sel EXCEPT !.of = "first", !.nth = 0],
                [sel EXCEPT !.of = "last", !.nth = 0],
                baseSelector>>
      ELSE <<>>)
     \o (IF sel.tag = "button"
         THEN <<Unmatched("button"), Unmatched("[role=button]"),
                Unmatched("input[type=button]"), Unmatched("input[type=submit]")>>
         ELSE <<>>)
     \o (IF sel.tag = "input"
         THEN <<Unmatched("input"), Unmatched("input[type=text]"),
                Unmatched("input[type=email]")>>
         ELSE <<>>)
     \o (IF sel.tag = "a"
         THEN <<Unmatched("a"), Unmatched("a[href]")>>
         ELSE <<>>)

RECURSIVE FindByFallbacks(_, _)
\* the loop of lines 792-801
FindByFallbacks(page, selectors) ==
  IF selectors = <<>> THEN Null
  ELSE IF Query(page, selectors[1]) # Null THEN Query(page, selectors[1])
  ELSE FindByFallbacks(page, Tail(selectors))

\* Math.min
Min(a, b) == IF a < b THEN a ELSE b

\* the 0-based index line 810 reads first
PickIndex(targetIndex, length) == Min(targetIndex - 1, length - 1)

\* mutant: the index is not clamped to the list
PositionalPickUnclamped(elements, targetIndex) ==
  IF targetIndex - 1 \in 0..(Len(elements) - 1)
  THEN elements[targetIndex] ELSE Null

\* line 810: elements[Math.min(targetIndex - 1, elements.length - 1)] || elements[0]
\* for a non-empty array; reading an index outside the array gives undefined
PositionalPick(elements, targetIndex) ==
  LET index == PickIndex(targetIndex, Len(elements))
  IN IF index \in 0..(Len(elements) - 1)
     THEN elements[index + 1] ELSE elements[1]

\* `selector.split(':')[0]` of line 804
BaseSelector(sel) == [tag |-> sel.tag, pseudo |-> FALSE, of |-> "none", nth |-> 0]

\* the strategy that runs once strategy k has found nothing
NextStage(k) == <<"text", "fallbacks", "positional", "done">>[k]

\* mutant: the text search runs even when the exact selector matched
ExactResultIgnored(element) == Null

\* lines 740-744: what strategy 1 makes of the element page.$ gave
ExactResult(element) == element

ResolveFinish(k, element) ==
  /\ rResult' = element
  /\ rStage' = IF element # Null THEN "done" ELSE NextStage(k)
  /\ UNCHANGED <<rPage, rSelector, rDescription, rHasPage>>
  /\ UNCHANGED <<orchVars, authVars, engineVars, harnessVars, finalVars, planVars>>
  /\ UNCHANGED <<speechVars, durationVars, analyzeVars, runVars>>

\* lines 732-734: without a page the function returns null at once
ResolveNoPage ==
  /\ rStage = "exact"
  /\ ~rHasPage
  /\ rStage' = "done"
  /\ rResult' = Null
  /\ UNCHANGED <<rPage, rSelector, rDescription, rConsulted, rHasPage, rFailed>>
  /\ UNCHANGED <<orchVars, authVars, engineVars, harnessVars, finalVars, planVars>>
  /\ UNCHANGED <<speechVars, durationVars, analyzeVars, runVars>>

\* strategy 1, lines 739-744
ResolveExact ==
  /\ rStage = "exact"
  /\ rHasPage
  /\ rConsulted' = Append(rConsulted, 1)
  /\ UNCHANGED rFailed
  /\ ResolveFinish(1, ExactResult(Query(rPage, rSelector)))

\* strategy 2, lines 746-788
ResolveByText ==
  /\ rStage = "text"
  /\ LET textKeywords == extractTextKeywords(rDescription)
     IN \E failing \in SUBSET {textKeywords[k] : k \in 1..Len(textKeywords)} :
          /\ rConsulted' = IF textKeywords = <<>> THEN rConsulted
                           ELSE Append(rConsulted, 2)
          /\ rFailed' = failing
          /\ ResolveFinish(2, FindByKeywords(rPage, textKeywords, failing))

\* strategy 3, lines 790-801
ResolveFallbacks ==
  /\ rStage = "fallbacks"
  /\ LET simplifiedSelectors == generateFallbackSelectors(rSelector)
     IN /\ rConsulted' = IF simplifiedSelectors = <<>> THEN rConsulted
                         ELSE Append(rConsulted, 3)
        /\ UNCHANGED rFailed
        /\ ResolveFinish(3, FindByFallbacks(rPage, simplifiedSelectors))

\* strategy 4, lines 803-822
ResolvePositional ==
  /\ rStage = "positional"
  /\ rConsulted' = Append(rConsulted, 4)
  /\ UNCHANGED rFailed
  /\ LET elements == QueryAll(rPage, BaseSelector(rSelector))
     IN ResolveFinish(4, IF Len(elements) > 0
                         THEN PositionalPick(elements, extractNthIndex(rSelector))
                         ELSE Null)

\* a page.$ or page.$$ of strategy 1, 3 or 4 rejects: nothing catches it
ResolveQueryRejects ==
  /\ rStage \in {"exact", "fallbacks", "positional"}
  /\ rHasPage
  /\ rStage' = "threw"
  /\ rConsulted' = Append(rConsulted,
       CHOOSE k \in 1..4 : <<"exact", "text", "fallbacks", "positional">>[k] = rStage)
  /\ UNCHANGED <<rPage, rSelector, rDescription, rResult, rHasPage, rFailed>>
  /\ UNCHANGED <<orchVars, authVars, engineVars, harnessVars, finalVars, planVars>>
  /\ UNCHANGED <<speechVars, durationVars, analyzeVars, runVars>>

(***************************************************************************)
(* AIDecisionMaker.analyzePageState                                        *)
(***************************************************************************)
\* A URL is its host word and its path word, a text is the sequence of its
\* words.  No word of the model has a pattern of the source as a proper part,
\* so `includes` is the presence of the pattern's words, in a row.
UrlHosts == {"x", "app"}
UrlPaths == {"login", "signin", "Login", "home", "account"}
PageUrls == [host : UrlHosts, path : UrlPaths]

\* the fields of a login form: the identifier input, the secret input and the
\* submit button with one of its labels
EmailInput == [tag |-> "input", type |-> "email", text |-> <<>>]
PasswordInput == [tag |-> "input", type |-> "password", text |-> <<>>]
SubmitLabels == {<<"Login">>, <<"sign", "in">>}
SubmitButton(label) == [tag |-> "button", type |-> "none", text |-> label]
LoginForms ==
  {email \o password \o submit :
     email \in {<<>>, <<EmailInput>>},
     password \in {<<>>, <<PasswordInput>>},
     submit \in {<<>>} \cup {<<SubmitButton(label)>> : label \in SubmitLabels}}

\* url.includes(pattern)
UrlIncludes(url, pattern) == url.host = pattern \/ url.path = pattern

\* url.toLowerCase()
UrlLower(url) == [host |-> Lower(url.host), path |-> Lower(url.path)]

\* el.text.toLowerCase()
TextLower(text) == [k \in 1..Len(text) |-> Lower(text[k])]

\* text.includes(pattern), the pattern given as its words
TextIncludes(text, pattern) ==
  \E at \in 0..(Len(text) - Len(pattern)) :
    \A k \in 1..Len(pattern) : text[at + k] = pattern[k]

\* lines 191-194
loggedInIndicators ==
  {"dashboard", "admin", "app", "workspace", "console", "panel",
   "profile", "account", "settings", "preferences", "logout", "signout"}

\* lines 226-229
skipPatterns ==
  {<<"waitlist">>, <<"join", "waitlist">>, <<"subscribe">>, <<"sign", "up">>,
   <<"signup">>, <<"get", "started">>, <<"try", "free">>, <<"free", "trial">>,
   <<"register">>}

\* the words of lines 238-250 that make an element important
importantWords ==
  {"submit", "save", "create", "delete", "edit", "view", "open", "manage",
   "configure", "settings", "dashboard", "menu", "nav"}

\* lines 196-203: hasLoggedInElements || hasLoggedInUrl
LoggedInByVocabulary(url, elements) ==
  \/ \E k \in 1..Len(elements), indicator \in loggedInIndicators :
       TextIncludes(TextLower(elements[k].text), <<indicator>>)
  \/ \E indicator \in loggedInIndicators : UrlIncludes(UrlLower(url), indicator)

\* lines 206-220: the page type
PageType(url, elements) ==
  IF UrlIncludes(url, "login") \/ UrlIncludes(url, "signin") THEN "login"
  ELSE IF UrlIncludes(url, "dashboard") \/ UrlIncludes(url, "admin")
          \/ UrlIncludes(url, "app") THEN "dashboard"
  ELSE IF UrlIncludes(url, "profile") \/ UrlIncludes(url, "account") THEN "profile"
  ELSE IF UrlIncludes(url, "settings") THEN "settings"
  ELSE IF LoggedInByVocabulary(url, elements) THEN "authenticated"
  ELSE "general"

\* lines 203-217: the url of a dashboard, profile or settings page sets
\* isLoggedIn, the url of a login page leaves it as the vocabulary made it
IsLoggedIn(url, elements) ==
  \/ LoggedInByVocabulary(url, elements)
  \/ PageType(url, elements) \in {"dashboard", "profile", "settings"}

\* the filter of lines 222-254
IsKeyElement(el, isLoggedIn) ==
  LET text == TextLower(el.text)
  IN /\ ~(isLoggedIn /\ \E pattern \in skipPatterns : TextIncludes(text, pattern))
     /\ \/ el.tag = "button"
        \/ \E word \in importantWords : TextIncludes(text, <<word>>)
        \/ ~isLoggedIn /\ (TextIncludes(text, <<"login">>)
                            \/ TextIncludes(text, <<"signup">>))
        \/ el.type = "submit"

\* analyzePageState, lines 183-268, without the suggestions that
\* generateActionSuggestions derives from the other fields
analyzePageState(pageState) ==
  LET url == pageState.url
      interactiveElements == pageState.interactiveElements
      isLoggedIn == IsLoggedIn(url, interactiveElements)
  IN [pageType |-> PageType(url, interactiveElements),
      keyElements |-> SelectSeq(interactiveElements,
                                LAMBDA el : IsKeyElement(el, isLoggedIn)),
      elementCount |-> Len(interactiveElements),
      isLoggedIn |-> isLoggedIn]

AnalyzePageState ==
  /\ aStage = "call"
  /\ aAnalysis' = analyzePageState([url |-> aUrl, interactiveElements |-> aElements])
  /\ aStage' = "done"
  /\ UNCHANGED <<aUrl, aElements>>
  /\ UNCHANGED <<orchVars, authVars, engineVars, harnessVars, finalVars, planVars>>
  /\ UNCHANGED <<resolveVars, speechVars, durationVars, runVars>>

(***************************************************************************)
(* Specifications                                                          *)
(***************************************************************************)
Next ==
  \/ EnsureOutputDirectory \/ Initialize \/ NavigateTo
  \/ Authenticate \/ DetectLoginForm \/ FillLoginForm
  \/ WaitForAuthenticationResult \/ AuthenticateReturn
  \/ StartRecording \/ SetViewportResolve \/ SetViewportReject
  \/ PlanInteractions
  \/ CallGenerateNarration \/ RetGenerateNarration
  \/ CallGenerateSpeech \/ RetGenerateSpeech
  \/ CallExecuteInteraction \/ RetExecuteInteraction
  \/ AddAudioSegment
  \/ CallSettle \/ RetSettle
  \/ StopRecording \/ Close
  \/ FinalizeVideo \/ SaveFramesToDisk \/ CreateAudioTrack \/ WriteSegmentResolve
  \/ AudioTrackEnd \/ AudioTrackError \/ CreateVideoWithAudio \/ CreateVideoOnly
  \/ CleanupTempFiles \/ SaveTranscript
  \/ TimerFire \/ CaptureFrameResolve \/ CaptureFrameReject \/ Tick

\* one run of createDemo
Spec == Init /\ [][Next]_vars

InitEngineOnly ==
  /\ pc = "harness"
  /\ err = NoErr
  /\ cfgUser = ""
  /\ cfgPassword = ""
  /\ browser = "open"
  /\ interactions = <<>>
  /\ i = 1
  /\ transcriptSegments = <<>>
  /\ trace = <<>>
  /\ InitAuth
  /\ InitEngine
  /\ InitHarness
  /\ InitFinal
  /\ InitRun
  /\ InitPlan
  /\ InitLib

NextEngine ==
  \/ HarnessStartRecording \/ HarnessSetViewportResolve \/ HarnessSetViewportReject
  \/ HarnessStopRecording \/ HarnessAddAudioSegment
  \/ TimerFire \/ CaptureFrameResolve \/ CaptureFrameReject \/ Tick

\* one VideoProcessor driven by arbitrary calls
SpecEngine == InitEngineOnly /\ [][NextEngine]_vars

InitPlanner ==
  /\ pc = "planner"
  /\ err = NoErr
  /\ cfgUser = ""
  /\ cfgPassword = ""
  /\ browser = "open"
  /\ interactions = <<>>
  /\ i = 1
  /\ transcriptSegments = <<>>
  /\ trace = <<>>
  /\ InitAuth
  /\ InitEngine
  /\ InitHarness
  /\ InitFinal
  /\ InitRun
  /\ maxInteractions \in 1..MaxSteps
  /\ response \in Responses
  /\ verdicts = <<>>
  /\ validInteractions = <<>>
  /\ InitLib

NextPlanner == PlannerValidate \/ PlannerPlan

\* one AIDecisionMaker applied to every response of the reasoning service
SpecPlan == InitPlanner /\ [][NextPlanner]_vars

InitResolver ==
  /\ pc = "resolver"
  /\ err = NoErr
  /\ cfgUser = ""
  /\ cfgPassword = ""
  /\ browser = "open"
  /\ interactions = <<>>
  /\ i = 1
  /\ transcriptSegments = <<>>
  /\ trace = <<>>
  /\ InitAuth
  /\ InitEngine
  /\ InitHarness
  /\ InitFinal
  /\ InitRun
  /\ InitPlan
  /\ InitSpeech
  /\ InitDuration
  /\ InitAnalyze
  /\ rHasPage \in BOOLEAN
  /\ rPage \in (IF rHasPage THEN Pages ELSE {<<>>})
  /\ rSelector \in Selectors
  /\ rDescription \in Descriptions
  /\ rStage = "exact"
  /\ rResult = Null
  /\ rConsulted = <<>>
  /\ rFailed = {}

NextResolver ==
  \/ ResolveNoPage
  \/ ResolveExact \/ ResolveByText \/ ResolveFallbacks \/ ResolvePositional
  \/ ResolveQueryRejects

\* one findElementWithFallback call on every page, selector and description
SpecResolve == InitResolver /\ [][NextResolver]_vars

\* the frame lists an engine can hold: frameNumber is the position and the
\* timestamps do not decrease
FrameLists ==
  {list \in UNION {[1..n -> [timestamp : 0..MaxTime, frameNumber : 0..(MaxFrames - 1),
                            session : {1}, overlapped : {FALSE}]] : n \in 0..MaxFrames} :
     /\ \A k \in 1..Len(list) : list[k].frameNumber = k - 1
     /\ \A k \in 1..(Len(list) - 1) : list[k].timestamp <= list[k + 1].timestamp}

\* the segment list an engine holds after n addAudioSegment calls at time 0
SegmentList(n) ==
  [k \in 1..n |-> [buffer |-> [audioOf |-> k], startTime |-> 0,
                   duration |-> [estimateOf |-> k], segmentNumber |-> k - 1,
                   at |-> 0]]

\* an engine that recorded one session and was stopped, perhaps with one
\* capture still suspended, at the call of finalizeVideo
InitFinalizer ==
  /\ pc = "finalizeVideo"
  /\ err = NoErr
  /\ cfgUser = ""
  /\ cfgPassword = ""
  /\ browser = "open"
  /\ interactions = <<>>
  /\ i = 1
  /\ transcriptSegments = <<>>
  /\ trace = <<>>
  /\ InitAuth
  /\ InitHarness
  /\ InitFinal
  /\ InitRun
  /\ InitPlan
  /\ InitLib
  /\ isRecording = FALSE
  /\ recordingStartTime = 0
  /\ frames \in FrameLists
  /\ audioSegments \in {SegmentList(n) : n \in 0..MaxSteps}
  /\ frameInterval = 0
  /\ currentPage = "page"
  /\ armed = {}
  /\ startsPending = {}
  /\ inflight \in {<<>>, <<1>>}
  /\ session = 1
  /\ now = MaxTime

NextFinalize ==
  \/ FinalizeVideo \/ SaveFramesToDisk \/ CreateAudioTrack \/ WriteSegmentResolve
  \/ AudioTrackEnd \/ AudioTrackError \/ CreateVideoWithAudio \/ CreateVideoOnly
  \/ CleanupTempFiles \/ CaptureFrameResolve \/ CaptureFrameReject

\* one finalizeVideo call on every engine of the list above
SpecFinalize == InitFinalizer /\ [][NextFinalize]_vars

\* the state of a fresh process in which only library functions are called
InitIdle ==
  /\ err = NoErr
  /\ cfgUser = ""
  /\ cfgPassword = ""
  /\ browser = "null"
  /\ interactions = <<>>
  /\ i = 1
  /\ transcriptSegments = <<>>
  /\ trace = <<>>
  /\ InitAuth
  /\ InitEngine
  /\ InitHarness
  /\ InitFinal
  /\ InitRun
  /\ InitPlan

InitSpeaker ==
  /\ pc = "speaker"
  /\ InitIdle
  /\ InitResolve
  /\ InitDuration
  /\ InitAnalyze
  /\ sText \in SpeechTexts
  /\ sApiKey \in BOOLEAN
  /\ sVoice \in Voices \cup {NoVoice}
  /\ sGender \in Genders
  /\ sStage = "enter"
  /\ sVoiceId = NoVoice
  /\ sAttempt = 0
  /\ sRequests = <<>>
  /\ sBackoffs = <<>>
  /\ sOutcome = "none"
  /\ sError = ""

NextSpeaker ==
  \/ SpeechEnter \/ SpeechFetch \/ SpeechBackoff \/ SpeechWrite \/ SpeechMock

\* one generateSpeech call with every text, option and answer of the service
SpecSpeech == InitSpeaker /\ [][NextSpeaker]_vars

InitEstimator ==
  /\ pc = "estimator"
  /\ InitIdle
  /\ InitResolve
  /\ InitSpeech
  /\ InitAnalyze
  /\ dText \in Texts
  /\ dEstimate = 0
  /\ dStage = "call"

NextEstimator == EstimateAudioDuration

\* estimateAudioDuration applied to every text
SpecDuration == InitEstimator /\ [][NextEstimator]_vars

InitAnalyzer ==
  /\ pc = "analyzer"
  /\ InitIdle
  /\ InitResolve
  /\ InitSpeech
  /\ InitDuration
  /\ aUrl \in PageUrls
  /\ aElements \in LoginForms
  /\ aAnalysis = NoAnalysis
  /\ aStage = "call"

NextAnalyzer == AnalyzePageState

\* analyzePageState applied to the snapshot of every login form at every url
SpecAnalyze == InitAnalyzer /\ [][NextAnalyzer]_vars

(***************************************************************************)
(* Properties                                                              *)
(***************************************************************************)
Happened(kind, op) == \E k \in 1..Len(trace) : trace[k].ev = kind /\ trace[k].op = op
Called(op) == Happened("call", op)
Returned(op) == Happened("ret", op)

\* the calls, returns and throws of the loop body, in the order they happened
LoopEvents ==
  SelectSeq(trace, LAMBDA e : e.step > 0 /\ e.ev \in {"call", "ret", "throw"})

\* the order of the loop body the specification states
StatedOrder ==
  <<"generateNarration", "generateSpeech", "executeInteraction",
    "addAudioSegment", "settle">>

\* C1: the steps are processed in plan order; within a step the operations run
\* in the order narration, speech, execution, audio segment, settle delay; each
\* call returns (or throws, ending the loop) before the next one is issued, so
\* the loop events strictly alternate call and return and never overlap
C1_SequentialLoop ==
  LET L == LoopEvents
  IN \A k \in 1..Len(L) :
       /\ L[k].op = StatedOrder[(((k - 1) \div 2) % 5) + 1]
       /\ L[k].step = ((k - 1) \div 10) + 1
       /\ L[k].step <= Len(interactions)
       /\ (k % 2 = 1) => L[k].ev = "call"
       /\ (k % 2 = 0) => L[k].ev \in {"ret", "throw"}
       /\ L[k].ev = "throw" => k = Len(L)

\* a run that processed two steps completely
C1_Witness ==
  /\ pc = "done"
  /\ Len(interactions) = 2
  /\ Len(LoopEvents) = 20

\* C2: when createDemo has failed after the browser was initialised, the
\* browser has been closed
C2_BrowserClosedOnError ==
  (pc = "failed" /\ Returned("initialize")) => browser = "closed"

\* C3: when the resolver finds no element for step k, executeInteraction throws
\* 'Element not found' naming the selector of step k, the run has failed, no
\* later step is narrated, synthesized or executed and finalizeVideo is never
\* called
C3_AbortOnMiss ==
  \A k \in 1..Len(trace) :
    trace[k].ev = "miss" =>
      /\ k < Len(trace)
      /\ trace[k + 1] = Ev("throw", "executeInteraction", trace[k].step)
      /\ k + 1 = Len(trace)
      /\ pc = "failed"
      /\ err = [message |-> ErrElementNotFound,
                selector |-> StepOf(interactions, trace[k].step).selector]
      /\ ~Called("finalizeVideo")
      /\ \A j \in 1..Len(trace) : trace[j].step <= trace[k].step

\* the element of the first of two planned steps was not found
C3_Witness ==
  /\ Len(interactions) = 2
  /\ Happened("miss", "findElementWithFallback")
  /\ i = 1
  /\ pc = "failed"

AfterAuthentication ==
  {"startRecording", "planInteractions", "generateNarration", "generateSpeech",
   "executeInteraction", "addAudioSegment", "stopRecording", "finalizeVideo"}

\* C4: when authenticate returned false, createDemo has failed with
\* 'Authentication failed' and neither startRecording nor planInteractions nor
\* narration, synthesis or finalizeVideo was invoked; the engine records only
\* after authenticate returned true
C4_AuthFailureStopsRun ==
  /\ authSuccess = "false" =>
       /\ pc = "failed"
       /\ err.message = ErrAuthenticationFailed
       /\ \A op \in AfterAuthentication : ~Called(op)
  /\ (isRecording \/ session > 0 \/ Called("startRecording")) => authSuccess = "true"

\* authenticate returned false without any exception: no form, rejected
\* credentials or an unclear outcome
C4_Witness ==
  /\ authSuccess = "false"
  /\ authException = "none"
  /\ pageTouched = {"detectLoginForm", "fillLoginForm", "waitForAuthenticationResult"}

\* C5: authenticate called with an empty identifier or an empty secret throws
\* the missing-credentials error and has made no call on the page
C5_MissingCredentialsFirst ==
  (Called("authenticate") /\ (cfgUser = "" \/ cfgPassword = "")) =>
    /\ pc = "failed"
    /\ err.message = ErrMissingCredentials
    /\ Happened("throw", "authenticate")
    /\ pageTouched = {}

\* authenticate was called with an empty identifier and a secret
C5_Witness ==
  /\ Called("authenticate")
  /\ cfgUser = ""
  /\ cfgPassword # ""

\* C6: authenticate throws only for missing credentials; an exception thrown
\* while detecting, filling or awaiting is turned into the return value false
C6_ExceptionsBecomeFalse ==
  /\ Happened("throw", "authenticate") =>
       /\ err.message = ErrMissingCredentials
       /\ authException = "none"
  /\ (authException # "none" /\ pc \notin {"fillLoginForm", "waitForAuthenticationResult",
                                           "authenticateReturn"}) =>
       /\ Returned("authenticate")
       /\ authSuccess = "false"

\* filling the form threw and authenticate returned false
C6_Witness ==
  /\ authException = "fillLoginForm"
  /\ Returned("authenticate")
  /\ authSuccess = "false"

\* C7: waitForAuthenticationResult reports success exactly when the URL read
\* after the wait differs from the URL recorded before the submission
C7_SuccessIffUrlChanged ==
  authResult.set =>
    (authResult.success <=> (newUrl # NoUrl /\ newUrl # originalUrl))

\* the URL is unchanged and the page shows no error indicator: failure
C7_Witness ==
  /\ authResult.set
  /\ newUrl = originalUrl
  /\ pageProbe.indicator = "none"
  /\ ~authResult.success

\* C8: detectLoginForm reports found = false whenever the identifier field or
\* the secret field is not matched, whatever the submit controls
C8_NoFieldNoForm ==
  (pageProbe.email # "unasked"
     /\ (pageProbe.email # "hit" \/ pageProbe.password # "hit")) =>
    ~loginForm.found

\* no identifier field, yet a submit control matched
C8_Witness ==
  /\ pageProbe.email = "miss"
  /\ pageProbe.password = "hit"
  /\ pageProbe.submit = "hit"
  /\ ~loginForm.found

\* C9: a startRecording call on a recording engine and a stopRecording call on
\* an idle engine change nothing of the engine and raise nothing
C9_ReentrantNoop ==
  [][(/\ harnessCalls' # harnessCalls
      /\ \/ harnessLast' = "startRecording" /\ isRecording
         \/ harnessLast' = "stopRecording" /\ ~isRecording)
     => UNCHANGED <<recVars, inflight, session, now, harnessErr>>]_vars

\* startRecording was called on an engine that holds a frame and is recording
C9_Witness ==
  /\ harnessLast = "startRecording"
  /\ harnessPre
  /\ Len(frames) > 0
  /\ frameInterval # 0

\* C10: while the engine stays idle (from the return of stopRecording to the
\* next startRecording) frames and audioSegments do not change
C10_IdleListsRetained ==
  [][(~isRecording /\ ~isRecording') => UNCHANGED <<frames, audioSegments>>]_vars

\* C11: addAudioSegment called on an idle engine changes nothing of the engine
\* and raises nothing; called on a recording engine it appends exactly one
\* segment that carries the given clip, the declared duration and the offset
\* Date.now() minus the recording start time, and changes nothing else
C11_AddAudioSegmentEffect ==
  [][(harnessCalls' # harnessCalls /\ harnessLast' = "addAudioSegment") =>
       /\ UNCHANGED <<isRecording, recordingStartTime, frames, frameInterval,
                      currentPage, armed, startsPending, inflight, session,
                      now, harnessErr>>
       /\ IF ~isRecording
          THEN UNCHANGED audioSegments
          ELSE /\ Len(audioSegments') = Len(audioSegments) + 1
               /\ SubSeq(audioSegments', 1, Len(audioSegments)) = audioSegments
               /\ LET segment == audioSegments'[Len(audioSegments')]
                  IN /\ segment.buffer = [audioOf |-> harnessCalls]
                     /\ segment.duration = [estimateOf |-> harnessCalls]
                     /\ segment.startTime = now - recordingStartTime]_vars

\* a segment was appended some time after the start of the recording, and a
\* later call on the stopped engine left the list as it was
C11_Witness ==
  /\ harnessLast = "addAudioSegment"
  /\ ~harnessPre
  /\ Len(audioSegments) = 1
  /\ audioSegments[1].startTime > 0

\* C12: the segments are held in the order of the calls that appended them,
\* segment number k at position k, with offsets that never decrease along the
\* list and that strictly increase between two appends separated by time
C12_SegmentsInAppendOrder ==
  /\ \A k \in 1..Len(audioSegments) : audioSegments[k].segmentNumber = k - 1
  /\ \A k \in 1..(Len(audioSegments) - 1) :
       /\ audioSegments[k].buffer.audioOf < audioSegments[k + 1].buffer.audioOf
       /\ audioSegments[k].startTime <= audioSegments[k + 1].startTime
       /\ audioSegments[k].at < audioSegments[k + 1].at =>
            audioSegments[k].startTime < audioSegments[k + 1].startTime

\* two segments appended at different times
C12_Witness ==
  /\ Len(audioSegments) = 2
  /\ audioSegments[1].at < audioSegments[2].at

\* C13: the frames are held in the order in which they were pushed, frame
\* number k at position k, with offsets that never decrease along the list,
\* also when several captures are suspended at the same time
C13_FramesInInsertionOrder ==
  /\ \A k \in 1..Len(frames) : frames[k].frameNumber = k - 1
  /\ \A k \in 1..(Len(frames) - 1) : frames[k].timestamp <= frames[k + 1].timestamp

\* two frames, the first pushed while another capture was still suspended
C13_Witness ==
  /\ Len(frames) = 2
  /\ frames[1].overlapped
  /\ frames[1].timestamp < frames[2].timestamp

\* the positions of the trace at which the event (kind, op) was recorded
Positions(kind, op) ==
  {k \in 1..Len(trace) : trace[k].ev = kind /\ trace[k].op = op}

\* the encode invocations of the run
EncodeCalls ==
  Positions("call", "createVideoWithAudio") \cup Positions("call", "createVideoOnly")

\* C14: finalizeVideo invokes the video encode at most once, and exactly once
\* when it returns; without audio segments it is the video-only encode and no
\* audio track is built; with segments it is the encode with audio, invoked
\* after the audio-track build has completed
C14_EncodeAfterAudioTrack ==
  /\ Cardinality(EncodeCalls) <= 1
  /\ Cardinality(Positions("call", "createAudioTrack")) <= 1
  /\ Returned("finalizeVideo") => Cardinality(EncodeCalls) = 1
  /\ (Called("createVideoOnly") \/ Called("createVideoWithAudio")) =>
       (Called("createVideoOnly") <=> Len(audioSegments) = 0)
  /\ Called("createVideoOnly") => ~Called("createAudioTrack")
  /\ \A e \in Positions("call", "createVideoWithAudio") :
       \E b \in Positions("ret", "createAudioTrack") : b < e

\* a finalize with two audio segments that built the track, encoded and returned
C14_Witness ==
  /\ Returned("finalizeVideo")
  /\ Len(audioSegments) = 2
  /\ Returned("createAudioTrack")
  /\ Returned("createVideoWithAudio")

\* C15: once the audio-track build has been run, every audio segment is
\* registered as one of its inputs, in segment order
C15_InputsBeforeRun ==
  audioRun # "idle" =>
    audioInputs = [k \in 1..Len(audioSegments) |-> k]

\* C16: when the encoding engine has reported an error, finalizeVideo has thrown
\* an error whose message is 'Video processing failed: ' followed by the cause
\* and has not returned, and createDemo has failed with it without a video path
C16_EncodeErrorIsFatal ==
  (\/ Happened("throw", "createAudioTrack")
   \/ Happened("throw", "createVideoWithAudio")
   \/ Happened("throw", "createVideoOnly")) =>
    /\ trace[Len(trace)] = Ev("throw", "finalizeVideo", 0)
    /\ ~Returned("finalizeVideo")
    /\ pc = "failed"
    /\ err.message = Wrapped("Video processing failed", "FFmpeg error")
    /\ videoPath = "none"

\* the encode with audio failed after the audio track had been built
C16_Witness ==
  /\ Happened("throw", "createVideoWithAudio")
  /\ Returned("createAudioTrack")
  /\ pc = "failed"

\* C17: once finalizeVideo has returned, the engine holds neither frames nor
\* audio segments
C17_SessionDestroyed ==
  Returned("finalizeVideo") => (frames = <<>> /\ audioSegments = <<>>)

\* the kinds of step the specification lists as supported
StatedKinds == {"click", "type", "hover", "scroll", "wait"}

\* C18: validateInteraction rejects every step that lacks kind, selector or
\* description, every step of a kind outside click, type, hover, scroll, wait,
\* and every type step without text; it accepts every other step
C18_ValidationVerdicts ==
  \A k \in 1..Len(verdicts) :
    LET step == response[k]
        lacking == ~step.isObject \/ step.type = "" \/ step.selector = ""
                   \/ step.description = ""
        unsupported == step.type \notin StatedKinds
        textless == step.type = "type" /\ step.text = ""
    IN verdicts[k] <=> ~(lacking \/ unsupported \/ textless)

\* a complete type step without text was rejected next to an accepted one
C18_Witness ==
  /\ Len(verdicts) = 2
  /\ response[1].type = "type" /\ response[1].selector # ""
  /\ response[1].description # "" /\ response[1].text = ""
  /\ ~verdicts[1]
  /\ verdicts[2]

\* C19: planInteractions returns the first min(maxInteractions, number of valid
\* steps) valid steps of the response in their original order: never more than
\* maxInteractions, only steps validateInteraction accepts
C19_PlanIsValidPrefix ==
  pc = "planned" =>
    LET valid == SelectSeq(response, LAMBDA step : validateInteraction(step))
        n == IF maxInteractions < Len(valid) THEN maxInteractions ELSE Len(valid)
    IN /\ Len(validInteractions) = n
       /\ Len(validInteractions) <= maxInteractions
       /\ \A k \in 1..n : validInteractions[k] = valid[k]
       /\ \A k \in 1..n : validateInteraction(validInteractions[k])
       /\ \A k \in 1..n : verdicts[CHOOSE j \in 1..Len(response) :
                                       /\ response[j] = validInteractions[k]
                                       /\ verdicts[j]]

\* an invalid step precedes a valid one and at most one step may be returned:
\* the invalid step is dropped and the valid one returned
C19_Witness ==
  /\ pc = "planned"
  /\ maxInteractions = 1
  /\ Len(response) = 2
  /\ ~verdicts[1]
  /\ verdicts[2]
  /\ validInteractions = <<response[2]>>

\* the requests generateInteractionPlan sent to the reasoning service
PlanRequests == Positions("request", "generateInteractionPlan")

\* C20: when the request to the reasoning service fails or its answer is
\* neither JSON nor holds an extractable array, planInteractions throws an error
\* whose message is 'Failed to generate interaction plan: ' followed by the
\* cause, createDemo fails with it and no step is processed; one planning call
\* sends one request, never a second one
C20_PlanFailureIsFatal ==
  /\ Cardinality(PlanRequests) <= 1
  /\ Happened("throw", "generateInteractionPlan") =>
       /\ Cardinality(PlanRequests) = 1
       /\ trace[Len(trace)] = Ev("throw", "planInteractions", 0)
       /\ pc = "failed"
       /\ err.message \in {"Failed to generate interaction plan: API Error",
                            "Failed to generate interaction plan: Unexpected token",
                            "Failed to generate interaction plan: Invalid AI response format"}
       /\ interactions = <<>>
       /\ ~Called("generateNarration")
  /\ Returned("planInteractions") => Cardinality(PlanRequests) = 1
  /\ Happened("throw", "planInteractions") => pc = "failed"

\* the reasoning service answered with prose and the run failed
C20_Witness ==
  /\ Happened("throw", "generateInteractionPlan")
  /\ err.message = "Failed to generate interaction plan: Invalid AI response format"
  /\ pc = "failed"

\* C21: every kind that passes plan validation is executable: a run never
\* fails with 'Unsupported interaction type' on a step whose kind is one of
\* supportedInteractions (click, type, hover, scroll, wait)
C21_ValidatedKindsExecutable ==
  \A k \in 1..Len(interactions) :
    (pc = "failed" /\ i = k /\ err.message = ErrUnsupportedType)
      => StepOf(interactions, k).type \notin supportedInteractions

\* C22: on a page where the given selector matches an element,
\* findElementWithFallback returns the first element that selector matches and
\* queries the page with strategy 1 only, whatever the description says (when
\* that one query rejects, no other strategy runs either)
C22_ExactSelectorShortCircuits ==
  (rStage # "exact" /\ Query(rPage, rSelector) # Null) =>
    /\ rConsulted = <<1>>
    /\ rStage \in {"done", "threw"}
    /\ rStage = "done" => rResult = Query(rPage, rSelector)

\* the selector matched one element while the quoted word of the description
\* is the text of another one, a button
C22_Witness ==
  /\ rStage = "done"
  /\ rResult = Query(rPage, rSelector)
  /\ rResult # Null
  /\ rDescription # <<>>
  /\ FindByKeywords(rPage, extractTextKeywords(rDescription), {}) \notin {Null, Root, rResult}

\* the positional-pick strategy ran on a base selector that matches elements
PositionalRan ==
  /\ rStage = "done"
  /\ rConsulted # <<>>
  /\ rConsulted[Len(rConsulted)] = 4
  /\ QueryAll(rPage, BaseSelector(rSelector)) # <<>>

\* C23 as stated: with index k in the selector and n >= 1 elements matching the
\* base selector, the positional-pick strategy returns the element at 0-based
\* position min(k, n) - 1, a position of the matched list, for every k
C23_PositionalPickClamps ==
  PositionalRan =>
    LET elements == QueryAll(rPage, BaseSelector(rSelector))
        k == extractNthIndex(rSelector)
        n == Len(elements)
    IN /\ Min(k, n) - 1 \in 0..(n - 1)
       /\ PickIndex(k, n) = Min(k, n) - 1
       /\ rResult = elements[Min(k, n)]

\* C23 amended: the strategy returns the element at 0-based position
\* max(min(k, n), 1) - 1, which is the first element when k = 0; the element is
\* one of the matched list for every k
C23_PositionalPickClampsFromOne ==
  PositionalRan =>
    LET elements == QueryAll(rPage, BaseSelector(rSelector))
        k == extractNthIndex(rSelector)
        n == Len(elements)
        position == IF Min(k, n) < 1 THEN 1 ELSE Min(k, n)
    IN /\ position \in 1..n
       /\ rResult = elements[position]

\* a selector with index 3 on a base that matches two elements: the second one
\* is returned
C23_Witness ==
  /\ PositionalRan
  /\ rSelector.of = "nth"
  /\ rSelector.nth = 3
  /\ Len(QueryAll(rPage, BaseSelector(rSelector))) = 2
  /\ rResult = QueryAll(rPage, BaseSelector(rSelector))[2]

\* every attempt of makeApiRequest was made and failed
AllAttemptsFailed ==
  /\ Len(sRequests) = retries
  /\ \A k \in 1..Len(sRequests) : ~sRequests[k].ok

\* C24: when every speech-service attempt has failed and the retries are
\* exhausted, generateSpeech throws ('Failed to generate speech') and returns
\* no audio clip
C24_SynthesisFailureSurfaces ==
  (AllAttemptsFailed /\ sStage = "done") =>
    /\ sOutcome = "throw"
    /\ sError # ""

\* the words of a string: its maximal runs of characters other than blanks
WordsOf(text) ==
  Cardinality({k \in 1..Len(text.chars) :
                 text.chars[k] # " " /\ (k = 1 \/ text.chars[k - 1] = " ")})

\* the words the preprocessed text holds, as estimateAudioDuration counts them
ProcessedWords(text) == SplitLength(preprocessText(text))

\* C26 as stated: the estimate is 0 for the empty text and for what is not a
\* string, and a text with more words always gets a strictly larger estimate
C26_StrictlyIncreasing ==
  dStage = "done" =>
    /\ (~dText.isString \/ dText.chars = <<>>) => dEstimate = 0
    /\ \A other \in Texts :
         WordsOf(other) > WordsOf(dText) => estimateAudioDuration(other) > dEstimate

\* C26 amended: the estimate is 0 for the empty text and for what is not a
\* string; for every other string it is the least whole number of seconds in
\* which the words counted in the preprocessed text (one when no word is left)
\* are spoken at 155 words per minute, so it is at least 1 and never decreases
\* when that number of words grows, but two texts of different word counts can
\* get the same estimate
C26_NonDecreasing ==
  dStage = "done" =>
    /\ (~dText.isString \/ dText.chars = <<>>) <=> dEstimate = 0
    /\ (dText.isString /\ dText.chars # <<>>) =>
         /\ dEstimate * wordsPerMinute >= ProcessedWords(dText) * 60
         /\ (dEstimate - 1) * wordsPerMinute < ProcessedWords(dText) * 60
    /\ \A other \in Texts :
         (other.isString /\ other.chars # <<>> /\ dEstimate > 0
            /\ ProcessedWords(other) >= ProcessedWords(dText))
           => estimateAudioDuration(other) >= dEstimate

\* a text of two words was estimated at one second, as a text of one word is
C26_Witness ==
  /\ dStage = "done"
  /\ WordsOf(dText) = 2
  /\ dEstimate = 1
  /\ estimateAudioDuration(Str(<<"a">>)) = 1

\* the requests generateNarration sent to the reasoning service for step k
NarrationRequestsOf(k) ==
  {n \in 1..Len(trace) : trace[n] = Ev("request", "chat.completions.create", k)}

\* C25: generateNarration sends exactly one request to the reasoning service
\* per step; when it fails, generateNarration throws at once an error whose
\* message begins with 'Failed to generate narration' and createDemo fails
\* before the step is synthesized or executed
C25_NarrationFailsFast ==
  \A k \in 1..Len(interactions) :
    /\ Cardinality(NarrationRequestsOf(k)) <= 1
    /\ (\E n \in 1..Len(trace) :
          trace[n].step = k /\ trace[n].op = "generateNarration"
            /\ trace[n].ev \in {"ret", "throw"})
         => Cardinality(NarrationRequestsOf(k)) = 1
    /\ (\E n \in 1..Len(trace) : trace[n] = Ev("throw", "generateNarration", k)) =>
         /\ trace[Len(trace)] = Ev("throw", "generateNarration", k)
         /\ trace[Len(trace) - 1] = Ev("request", "chat.completions.create", k)
         /\ pc = "failed"
         /\ err.message \in
              {"Failed to generate narration: API Error",
               "Failed to generate narration: Cannot read properties of undefined"}
         /\ ~\E n \in 1..Len(trace) :
               trace[n].step = k
                 /\ trace[n].op \in {"generateSpeech", "executeInteraction"}
         /\ Len(transcriptSegments) = k - 1

\* the request for the narration of the second step was rejected
C25_Witness ==
  /\ pc = "failed"
  /\ i = 2
  /\ err.message = "Failed to generate narration: API Error"
  /\ Returned("executeInteraction")

\* C27: within one run the voice is selected once, before the narration of the
\* first step, and every generateSpeech call asks the speech service for that
\* same voice id
C27_OneVoicePerRun ==
  /\ Cardinality(Positions("call", "getRandomVoice")) <= 1
  /\ selectedVoice # NoVoice <=> Called("getRandomVoice")
  /\ Called("generateNarration") =>
       /\ selectedVoice \in Voices
       /\ \A n \in Positions("call", "getRandomVoice"),
             m \in Positions("call", "generateNarration") : n < m
  /\ Len(voicesUsed) = Cardinality(Positions("ret", "generateSpeech"))
  /\ \A k \in 1..Len(voicesUsed) : voicesUsed[k] = selectedVoice

\* two steps were synthesized with the voice selected for the run
C27_Witness ==
  /\ Len(voicesUsed) = 2
  /\ voicesUsed[1] = selectedVoice
  /\ voicesUsed[2] = selectedVoice
  /\ selectedVoice = "rachel"
  /\ pc = "done"

\* C28: a run of createDemo with a missing user or password fails before any
\* browser or network activity
C28_InvalidInputsFailFirst ==
  (cfgUser = "" \/ cfgPassword = "") =>
    /\ ~Called("initialize")
    /\ ~Called("navigateTo")

\* C29: the log path createDemo names is the path of the file the logger
\* writes: both carry the same timestamp token
C29_SharedTimestampToken ==
  outputFiles # NoFiles => outputFiles.log = loggerLogFilePath

\* the narrations generated for the steps 1..n, in step order
NarrationsOf(n) == [k \in 1..n |-> NarrationText(k)]

\* C30: when the run has succeeded, the transcript written holds one narration
\* per executed step, in execution order: as many segments as the plan has
\* steps, segment k being the narration generated for step k; the subtitle file
\* holds the same segments
C30_TranscriptMatchesSteps ==
  pc = "done" =>
    /\ Len(transcriptSegments) = Len(interactions)
    /\ \A k \in 1..Len(interactions) :
         /\ transcriptSegments[k] = NarrationText(k)
         /\ \E n \in 1..Len(trace) : trace[n] = Ev("ret", "executeInteraction", k)
    /\ transcriptFile = [path |-> outputFiles.transcript,
                         content |-> PlainText(NarrationsOf(Len(interactions)))]
    /\ subtitleFile.content = SrtContent(NarrationsOf(Len(interactions)))

\* a run of two steps has succeeded
C30_Witness ==
  /\ pc = "done"
  /\ Len(interactions) = 2
  /\ transcriptFile.content = "Narration 1\n\nNarration 2"
  /\ subtitleFile.content =
       "1\n00:00:00,000 --> 00:00:03,000\nNarration 1\n\n2\n00:00:03,000 --> 00:00:06,000\nNarration 2\n"

\* the first position of the page that holds an element of the given type
\* whose text contains the keyword, Null when there is none
FirstWithText(page, tag, keyword) ==
  IF \E p \in 1..Len(page) : page[p].tag = tag /\ ContainsText(page[p], keyword)
  THEN CHOOSE p \in 1..Len(page) :
         /\ page[p].tag = tag /\ ContainsText(page[p], keyword)
         /\ \A q \in 1..(p - 1) : ~(page[q].tag = tag /\ ContainsText(page[q], keyword))
  ELSE Null

\* the least element of a non-empty set of numbers
Least(set) == CHOOSE k \in set : \A other \in set : k <= other

RequestOver ==
  /\ sRequests # <<>>
  /\ sStage \in {"write", "mock", "done"}

\* the retry discipline of makeApiRequest on the history of one call
RetryDiscipline ==
  /\ Len(sRequests) <= 3
  /\ \A k \in 1..Len(sRequests) :
       /\ sRequests[k].attempt = k - 1
       /\ sRequests[k].ok => k = Len(sRequests)
  /\ Len(sBackoffs) <= 2
  /\ \A k \in 1..Len(sBackoffs) : sBackoffs[k] = <<1000, 2000>>[k]
  /\ Len(sBackoffs) = IF sStage = "fetch" \/ sRequests = <<>>
                      THEN Len(sRequests) ELSE Len(sRequests) - 1
  /\ sStage = "backoff" => Len(sRequests) < 3
  /\ RequestOver =>
       \/ sRequests[Len(sRequests)].ok
       \/ Len(sRequests) = 3 /\ \A k \in 1..3 : ~sRequests[k].ok

\* every fetch settles and every timer set by makeApiRequest fires
SpecSpeechFair == SpecSpeech /\ WF_vars(NextSpeaker)

\* C32: makeApiRequest issues at most three requests, numbered from attempt 0,
\* and none after a successful one; it waits 1000 ms after the first failed
\* attempt and 2000 ms after the second and does not wait after the third; it
\* ends with the first successful response or, after three failures, with the
\* error of the last one, and it always ends
C32_BoundedRetryWithBackoff ==
  /\ []RetryDiscipline
  /\ (sStage = "fetch") ~> RequestOver

\* two failed attempts, each followed by its delay, then a response
C32_Witness ==
  /\ sStage = "write"
  /\ Len(sRequests) = 3
  /\ ~sRequests[1].ok /\ ~sRequests[2].ok /\ sRequests[3].ok
  /\ sBackoffs = <<1000, 2000>>

\* C33: finalizeVideo calls cleanupTempFiles only right after an encode that
\* succeeded, and whatever fails inside the cleanup (the directory cannot be
\* read, a file cannot be deleted), cleanupTempFiles returns and finalizeVideo
\* returns the output path
C33_CleanupBestEffort ==
  \A k \in 1..Len(trace) :
    (trace[k].ev = "call" /\ trace[k].op = "cleanupTempFiles") =>
      /\ k > 1
      /\ trace[k - 1].ev = "ret"
      /\ trace[k - 1].op \in {"createVideoWithAudio", "createVideoOnly"}
      /\ Returned("cleanupTempFiles")
      /\ Returned("finalizeVideo")
      /\ ~Happened("throw", "finalizeVideo")
      /\ videoPath = "output"
      /\ pc # "failed"

\* the directory of the images could not be read, the images are still there
\* and finalizeVideo has returned the output path
C33_Witness ==
  /\ Happened("caught", "readdir")
  /\ frameFiles # {}
  /\ Returned("finalizeVideo")
  /\ videoPath = "output"

\* C34: every frame held in frames was captured by a callback that began in
\* the session the engine is in (the one the last startRecording opened, which
\* emptied frames and audioSegments and took a new start time), never by a
\* capture left suspended by an earlier session
C34_FramesOfCurrentSession ==
  \A k \in 1..Len(frames) : frames[k].session = session

\* C36: for a snapshot whose URL contains 'login' or 'signin' and whose
\* elements are fields of a login form only, analyzePageState answers page type
\* login and isLoggedIn = false
C36_LoginPageNotAuthenticated ==
  (aStage = "done" /\ (UrlIncludes(aUrl, "login") \/ UrlIncludes(aUrl, "signin"))) =>
    /\ aAnalysis.pageType = "login"
    /\ ~aAnalysis.isLoggedIn

\* the images of temp_frames are those of the first frames of the list, each
\* under the number of its position, the numbers running from 0 without a gap
ImagesNumberedByPosition ==
  /\ Cardinality(frameFiles) <= Len(frames)
  /\ \A k \in 1..Cardinality(frameFiles) :
       [name |-> FrameName(k - 1), frame |-> frames[k]] \in frameFiles

\* saveFramesToDisk returns having written one image for every frame the list
\* holds at its call
SaveWritesEveryFrame ==
  (pc = "saveFramesToDisk" /\ pc' \in {"createAudioTrack", "createVideoOnly"}) =>
    /\ Cardinality(frameFiles') = Len(frames)
    /\ \A k \in 1..Len(frames) :
         [name |-> FrameName(k - 1), frame |-> frames[k]] \in frameFiles'

C37_TimerOnlyWhileRecording ==
  /\ armed # {} => isRecording
  /\ Cardinality(armed) <= 1

\* C38: when createDemo has terminated, with its result or with an error
\* raised after startRecording returned, the engine is idle and no capture
\* timer is armed
C38_EngineIdleOnTermination ==
  (pc \in {"done", "failed"} /\ Returned("startRecording")) =>
    /\ ~isRecording
    /\ armed = {}

\* C39: the transcript file and the subtitle file are written only after
\* finalizeVideo has returned the output path; in a run whose finalizeVideo has
\* thrown neither file is written, whatever narration was generated
C39_TranscriptAfterFinalize ==
  /\ (transcriptFile # NoFile \/ subtitleFile # NoFile) =>
       /\ Returned("finalizeVideo")
       /\ videoPath = "output"
  /\ Happened("throw", "finalizeVideo") =>
       /\ transcriptFile = NoFile
       /\ subtitleFile = NoFile
       /\ pc = "failed"

\* two steps were narrated and executed, then finalizeVideo threw: no
\* transcript and no subtitles
C39_Witness ==
  /\ Happened("throw", "finalizeVideo")
  /\ Len(transcriptSegments) = 2
  /\ transcriptFile = NoFile
  /\ subtitleFile = NoFile

\* C40: in a run of createDemo, stopRecording has returned before
\* browserManager.close is called, close has returned before finalizeVideo is
\* called, and the browser is never closed while the engine is recording
C40_StopCloseFinalizeOrder ==
  /\ \A c \in Positions("call", "close") :
       \E s \in Positions("ret", "stopRecording") : s < c
  /\ \A f \in Positions("call", "finalizeVideo") :
       \E c \in Positions("ret", "close") : c < f
  /\ Called("close") => ~isRecording
  /\ browser = "closed" => (~isRecording /\ armed = {})

\* a run that recorded a frame, stopped, closed the browser and began to
\* finalize
C40_Witness ==
  /\ Called("finalizeVideo")
  /\ browser = "closed"
  /\ Len(frames) > 0
  /\ ~isRecording

====
